---- MODULE Spec2Model ----
(***************************************************************************)
(* Architecture-flow-visualizer: the canvas engine (js/canvas-engine.js,   *)
(* first CanvasEngine class) and the command history of the application    *)
(* (js/app.js), as a state machine.                                        *)
(*                                                                         *)
(* Numbers: JavaScript numbers are modelled as exact rationals             *)
(* [n |-> numerator, d |-> denominator > 0] in lowest terms, so that the   *)
(* divisions by the zoom are computed, not assumed away.  Rounding of      *)
(* IEEE doubles is not modelled.                                           *)
(* Objects: a node object has an identity (oid) besides its id, because    *)
(* selectedNode holds a reference to the object, not the id.               *)
(* An optional reference is a sequence of length <= 1 (NULL == <<>>).      *)
(***************************************************************************)
EXTENDS Integers, Sequences, FiniteSets, TLC

----------------------------------------------------------------------------
(* Bounds of the model *)

\* js/app.js:26 sets the field maxHistorySize to 50; the history code depends
\* on it only through the comparison and slice of executeCommand, so the
\* model runs with capacities 2..MaxHistorySize, which the bounded runs exceed.
MaxHistorySize == 3
\* number of commands created in one behaviour
MaxCommands == 4
\* number of engine API calls (addNode, addConnection, ...) in one behaviour
MaxSceneOps == 4
\* number of pointer events in one behaviour
MaxPointerEvents == 4
\* number of wheel / setZoom events in one behaviour
MaxZoomEvents == 3
\* number of objects (nodes, generated ids) allocated in one behaviour
MaxOid == 6
\* number of addNode calls in one behaviour of the pointer specification
MaxPointerNodes == 2
\* number of addNode calls in one behaviour of the fitting specification
MaxFitNodes == 2
\* number of calls in one behaviour of the connection-list specification
MaxConnOps == 4
\* number of calls and pointer events in one behaviour of the scene-replacement
\* specification
MaxDataOps == 4
MaxEditOps == 7
MaxEditCommands == 2
MaxCmdOps == 6
MaxCmdCommands == 2
MaxSessionOps == 5
MaxSessionCommands == 2
MaxDragOps == 6
MaxDragCommands == 1

----------------------------------------------------------------------------
(* Exact rational arithmetic *)

Abs(i) == IF i < 0 THEN -i ELSE i

RECURSIVE GCD(_, _)
GCD(a, b) == IF b = 0 THEN a ELSE GCD(b, a % b)

Rat(n, d) ==
    LET g == GCD(Abs(n), Abs(d))
        s == IF d < 0 THEN -1 ELSE 1
    IN  [n |-> s * (n \div g), d |-> s * (d \div g)]

R(i) == [n |-> i, d |-> 1]

RAdd(a, b) == Rat(a.n * b.d + b.n * a.d, a.d * b.d)
RNeg(a) == [n |-> -a.n, d |-> a.d]
RSub(a, b) == RAdd(a, RNeg(b))
RMul(a, b) ==
    LET g1 == GCD(Abs(a.n), b.d)
        g2 == GCD(Abs(b.n), a.d)
    IN  Rat((a.n \div g1) * (b.n \div g2), (a.d \div g2) * (b.d \div g1))
RDiv(a, b) == RMul(a, Rat(b.d, b.n))
RLe(a, b) == a.n * b.d <= b.n * a.d
RLt(a, b) == a.n * b.d < b.n * a.d
RMin(a, b) == IF RLe(a, b) THEN a ELSE b
RMax(a, b) == IF RLe(a, b) THEN b ELSE a

----------------------------------------------------------------------------
(* Optional references *)

NULL == <<>>
Some(v) == <<v>>

----------------------------------------------------------------------------
(* State *)

VARIABLES
    \* CanvasEngine
    config,             \* this.config (nodeSize, padding)
    nodes,              \* this.nodes: Map in insertion order, as a sequence
    connections,        \* this.connections
    layers,             \* this.layers: layer id -> [visible]
    selectedNode,       \* reference to a node object, or NULL
    hoveredNode,        \* reference to a node object, or NULL
    selectedConnection, \* reference to a connection, or NULL
    viewport,           \* [x, y, zoom]
    isDragging,
    dragStart,          \* screen point of the pointer-down, or NULL
    lastMousePos,
    hasDragged,
    nextOid,            \* allocator of object identities
    highlightedNode,    \* reference to a node object, or NULL
    highlightedNodes,   \* sequence of references to node objects
    highlightedConnections, \* sequence of connection ids
    \* ArchitectureApp
    commandHistory,
    historyIndex,
    maxHistorySize,
    nextNodeId,
    connectionMode,
    selectedNodeForConnection, \* reference to a node object, or NULL
    zoomAnims,          \* Utils.animate runs in flight: set of [from, to]
    pendingFits,        \* setTimeout callbacks of setData not yet run
    pendingClears,      \* setTimeout callbacks of highlightConnections not yet run
    currentEditingConnection, \* the connection the edit modal shows, or NULL
    \* LayerManager
    nodeCounts,         \* layer id -> nodeCount of the layer manager's layers
    \* observation of the run
    nextCid,            \* allocator of command identities
    applied,            \* commands whose effect is in force, in the order applied
    event,              \* what the last handler did (callbacks, notices, calls)
    gesture,            \* the pointer gesture in progress, as the user sees it
    steps               \* number of events of the bounded kinds so far

auxVars == <<highlightedNode, highlightedNodes, highlightedConnections>>
engineVars == <<config, nodes, connections, layers, selectedNode, hoveredNode,
                selectedConnection, viewport, isDragging, dragStart,
                lastMousePos, hasDragged, nextOid, auxVars>>
sceneVars == <<nodes, connections, layers, nextOid>>
pointerVars == <<isDragging, dragStart, lastMousePos, hasDragged>>
\* the command history, with the statistics that only commands refresh
historyVars == <<commandHistory, historyIndex, maxHistorySize, nextNodeId,
                nextCid, applied, nodeCounts>>
uiVars == <<connectionMode, selectedNodeForConnection, zoomAnims, pendingFits,
            pendingClears, currentEditingConnection>>
appVars == <<commandHistory, historyIndex, maxHistorySize, nextNodeId, nextCid,
             applied, nodeCounts, uiVars>>
vars == <<engineVars, appVars, event, gesture, steps>>

----------------------------------------------------------------------------
(* Constants of the program *)

dragThreshold == 5
minZoom == Rat(1, 10)
maxZoom == R(3)
\* options the application passes to the engine (js/app.js:60-67)
appConfig == [nodeSize |-> [width |-> 140, height |-> 90], padding |-> 30]
\* the size of the canvas element is provided by the host page
canvasClient == [width |-> 800, height |-> 600]

----------------------------------------------------------------------------
(* Pure helpers of utils.js *)

pointInRect(point, rect) ==
    /\ RLe(rect.x, point.x)
    /\ RLe(point.x, RAdd(rect.x, rect.width))
    /\ RLe(rect.y, point.y)
    /\ RLe(point.y, RAdd(rect.y, rect.height))

clamp(value, lo, hi) == RMin(RMax(value, lo), hi)

----------------------------------------------------------------------------
(* CanvasEngine: coordinates, layers, hit-testing *)

screenToWorldV(vp, screenPos) ==
    [x |-> RDiv(RSub(R(screenPos.x), vp.x), vp.zoom),
     y |-> RDiv(RSub(R(screenPos.y), vp.y), vp.zoom)]

screenToWorld(screenPos) == screenToWorldV(viewport, screenPos)

worldToScreen(worldPos) ==
    [x |-> RAdd(RMul(worldPos.x, viewport.zoom), viewport.x),
     y |-> RAdd(RMul(worldPos.y, viewport.zoom), viewport.y)]

isLayerVisibleIn_UnknownHidden(ls, layerId) ==
    IF DOMAIN ls = {} THEN TRUE
    ELSE IF layerId \in DOMAIN ls THEN ls[layerId].visible ELSE FALSE

\* isLayerVisible on a given registry
isLayerVisibleIn(ls, layerId) ==
    IF layerId \notin DOMAIN ls /\ DOMAIN ls = {} THEN TRUE
    ELSE IF layerId \in DOMAIN ls THEN ls[layerId].visible ELSE TRUE

isLayerVisible(layerId) == isLayerVisibleIn(layers, layerId)

nodeRect(node) ==
    [x |-> RSub(node.x, Rat(config.nodeSize.width, 2)),
     y |-> RSub(node.y, Rat(config.nodeSize.height, 2)),
     width |-> R(config.nodeSize.width),
     height |-> R(config.nodeSize.height)]

\* indices of the nodes that the scan of getNodeAtPosition accepts
HitIndices(screenPos) ==
    {i \in 1..Len(nodes) :
        /\ isLayerVisible(nodes[i].layer)
        /\ pointInRect(screenToWorld(screenPos), nodeRect(nodes[i]))}

Min(S) == CHOOSE m \in S : \A o \in S : m <= o
Max(S) == CHOOSE m \in S : \A o \in S : m >= o

\* for (const node of this.nodes.values()) ... return node: the first match
\* in the Map's insertion order
getNodeAtPosition(screenPos) ==
    LET hits == HitIndices(screenPos)
    IN  IF hits = {} THEN NULL ELSE Some(nodes[Min(hits)])

\* this.nodes.get(id)
HasNode(id) == \E i \in 1..Len(nodes) : nodes[i].id = id
NodeIndex(id) == CHOOSE i \in 1..Len(nodes) : nodes[i].id = id
GetNode(id) == nodes[NodeIndex(id)]

\* square of pointToLineDistance (the code returns the square root; the model
\* compares squares)
pointToLineDistanceSq(point, lineStart, lineEnd) ==
    LET A == RSub(point.x, lineStart.x)
        B == RSub(point.y, lineStart.y)
        C == RSub(lineEnd.x, lineStart.x)
        D == RSub(lineEnd.y, lineStart.y)
        dot == RAdd(RMul(A, C), RMul(B, D))
        lenSq == RAdd(RMul(C, C), RMul(D, D))
    IN  IF lenSq.n = 0 THEN RAdd(RMul(A, A), RMul(B, B))
        ELSE LET param == RDiv(dot, lenSq)
                 xx == IF RLt(param, R(0)) THEN lineStart.x
                       ELSE IF RLt(R(1), param) THEN lineEnd.x
                       ELSE RAdd(lineStart.x, RMul(param, C))
                 yy == IF RLt(param, R(0)) THEN lineStart.y
                       ELSE IF RLt(R(1), param) THEN lineEnd.y
                       ELSE RAdd(lineStart.y, RMul(param, D))
                 dx == RSub(point.x, xx)
                 dy == RSub(point.y, yy)
             IN  RAdd(RMul(dx, dx), RMul(dy, dy))

tolerance == 8

\* the guard shared by getConnectionAtPosition and renderConnection: both
\* endpoints resolve and are on visible layers
EndpointsVisible(conn) ==
    /\ HasNode(conn.from)
    /\ HasNode(conn.to)
    /\ isLayerVisible(GetNode(conn.from).layer)
    /\ isLayerVisible(GetNode(conn.to).layer)

ConnHitIndices(screenPos) ==
    {i \in 1..Len(connections) :
        /\ EndpointsVisible(connections[i])
        /\ RLe(pointToLineDistanceSq(screenToWorld(screenPos),
                                     GetNode(connections[i].from),
                                     GetNode(connections[i].to)),
               R(tolerance * tolerance))}

getConnectionAtPosition(screenPos) ==
    LET hits == ConnHitIndices(screenPos)
    IN  IF hits = {} THEN NULL ELSE Some(connections[Min(hits)])

\* what render() paints: renderConnections, then renderNodes
renderConnections ==
    {i \in 1..Len(connections) : EndpointsVisible(connections[i])}
renderNodes ==
    {i \in 1..Len(nodes) : isLayerVisible(nodes[i].layer)}

----------------------------------------------------------------------------
(* Observation record written by every handler *)

NoPos == [x |-> 0, y |-> 0]

Ev(op, pos, id, fired, toast, calls) ==
    [op |-> op, pos |-> pos, id |-> id, fired |-> fired, toast |-> toast,
     calls |-> calls, args |-> <<>>, ret |-> NULL, threw |-> FALSE,
     drawn |-> FALSE]

\* the call's arguments, the handler's return value, and an exception it let
\* escape
WithArgs(e, args) == [e EXCEPT !.args = args]
\* render() was called after the handler's last change; recorded for the
\* handlers of pointer events and for the callbacks of a click
Drawn(e) == [e EXCEPT !.drawn = TRUE]
Returning(e, value) == [e EXCEPT !.ret = Some(value)]
Throwing(e) == [e EXCEPT !.threw = TRUE]

Fired(cb, id) == [cb |-> cb, id |-> id]
Call(cid, method) == [cid |-> cid, method |-> method]

\* a reference to a node object
Ref(node) == [oid |-> node.oid, id |-> node.id]
RefOpt(nodeOpt) == IF nodeOpt = NULL THEN NULL ELSE Some(Ref(nodeOpt[1]))

----------------------------------------------------------------------------
(* CanvasEngine: scene store *)

\* what reading a property gives when the object has no such key
Undefined == "undefined"

\* addNode: builds a new node object and this.nodes.set(nodeId, node); a Map
\* keeps the position of a key that is already present
addNode(ns, oid, nodeData) ==
    LET node == [id |-> nodeData.id, oid |-> oid, x |-> nodeData.x,
                 y |-> nodeData.y, layer |-> nodeData.layer,
                 label |-> IF "label" \in DOMAIN nodeData THEN nodeData.label
                           ELSE "Node",
                 code |-> IF "code" \in DOMAIN nodeData THEN nodeData.code
                          ELSE Undefined]
    IN  IF \E i \in 1..Len(ns) : ns[i].id = nodeData.id
        THEN [i \in 1..Len(ns) |-> IF ns[i].id = nodeData.id THEN node ELSE ns[i]]
        ELSE Append(ns, node)

\* this.nodes.delete(nodeId)
deleteNode(ns, nodeId) ==
    LET Keep(n) == n.id # nodeId IN SelectSeq(ns, Keep)

removeNodeConnections_FromOnly(conns, nodeId) ==
    LET Keep(c) == c.from # nodeId IN SelectSeq(conns, Keep)

\* removeNode: this.connections.filter(conn => conn.from !== nodeId &&
\* conn.to !== nodeId)
removeNodeConnections(conns, nodeId) ==
    LET Keep(c) == c.from # nodeId /\ c.to # nodeId IN SelectSeq(conns, Keep)

\* removeNode: clear selection if selected node was removed
removeNodeSelection(sel, nodeId) ==
    IF sel # NULL /\ sel[1].id = nodeId THEN NULL ELSE sel

\* addConnection with an object that has from and to: the stored connection
\* (id generated when the object has none, label and type defaulted)
newConnection(connection, genId) ==
    [id |-> IF connection.id = 0 THEN genId ELSE connection.id,
     from |-> connection.from, to |-> connection.to,
     label |-> connection.label,
     type |-> IF connection.type = "" THEN "default" ELSE connection.type]

\* an id produced by Utils.generateId(): distinct from every given id
generateId(oid) == 0 - oid

----------------------------------------------------------------------------
(* CanvasEngine: pointer handlers, as state updates *)

exceedsThreshold_Inclusive(mousePos, start) ==
    (mousePos.x - start.x) * (mousePos.x - start.x)
      + (mousePos.y - start.y) * (mousePos.y - start.y)
      >= dragThreshold * dragThreshold

\* handleMouseMove: totalMovement > this.dragThreshold, on the squares
exceedsThreshold(mousePos, start) ==
    (mousePos.x - start.x) * (mousePos.x - start.x)
      + (mousePos.y - start.y) * (mousePos.y - start.y)
      > dragThreshold * dragThreshold

dragDelta_NoZoom(d, zoom) == R(d)

\* handleMouseMove: dx / this.viewport.zoom
dragDelta(d, zoom) == RDiv(R(d), zoom)

\* handleMouseMove, node branch: the object selectedNode refers to is moved;
\* an object that is no longer stored in the Map is not part of the scene
moveSelected(ns, sel, dx, dy, zoom) ==
    [i \in 1..Len(ns) |->
        IF ns[i].oid = sel.oid
        THEN [ns[i] EXCEPT !.x = RAdd(@, dragDelta(dx, zoom)),
                           !.y = RAdd(@, dragDelta(dy, zoom))]
        ELSE ns[i]]

HandleMouseDown(mousePos) ==
    LET node == getNodeAtPosition(mousePos)
    IN  /\ selectedNode' = RefOpt(node)
        /\ dragStart' = Some(mousePos)
        /\ isDragging' = (node = NULL)
        /\ hasDragged' = FALSE
        /\ lastMousePos' = Some(mousePos)
        /\ event' = Drawn(Ev("mousedown", mousePos, 0, <<>>, "", <<>>))
        /\ UNCHANGED <<auxVars, config, nodes, connections, layers, hoveredNode,
                       selectedConnection, viewport, nextOid>>

HandleMouseMove(mousePos) ==
    /\ lastMousePos' = Some(mousePos)
    /\ IF dragStart # NULL
       THEN LET dx == mousePos.x - lastMousePos[1].x
                dy == mousePos.y - lastMousePos[1].y
            IN  /\ hasDragged' = (hasDragged \/ exceedsThreshold(mousePos, dragStart[1]))
                /\ IF selectedNode # NULL /\ ~isDragging
                   THEN /\ nodes' = moveSelected(nodes, selectedNode[1], dx, dy,
                                                 viewport.zoom)
                        /\ UNCHANGED viewport
                   ELSE IF isDragging
                   THEN /\ viewport' = [viewport EXCEPT !.x = RAdd(@, R(dx)),
                                                        !.y = RAdd(@, R(dy))]
                        /\ UNCHANGED nodes
                   ELSE UNCHANGED <<nodes, viewport>>
                /\ UNCHANGED hoveredNode
       ELSE /\ hoveredNode' = RefOpt(getNodeAtPosition(mousePos))
            /\ UNCHANGED <<hasDragged, nodes, viewport>>
    /\ UNCHANGED <<auxVars, config, connections, layers, selectedNode, selectedConnection,
                   isDragging, dragStart, nextOid>>
    /\ event' = IF dragStart # NULL \/ hoveredNode' # hoveredNode
                THEN Drawn(Ev("mousemove", mousePos, 0, <<>>, "", <<>>))
                ELSE Ev("mousemove", mousePos, 0, <<>>, "", <<>>)

clickSuppressed_Never(dragged) == FALSE

\* handleClick: if (this.hasDragged) return
clickSuppressed(dragged) == dragged

\* handleClick at mousePos in the current scene: new selection and callbacks
clickOutcome(mousePos) ==
    LET node == getNodeAtPosition(mousePos)
        conn == getConnectionAtPosition(mousePos)
    IN  IF clickSuppressed(hasDragged)
        THEN [sel |-> selectedNode, selConn |-> selectedConnection, fired |-> <<>>,
              drawn |-> FALSE]
        ELSE IF node # NULL
        THEN [sel |-> selectedNode, selConn |-> NULL,
              fired |-> <<Fired("onNodeClick", node[1].id)>>, drawn |-> FALSE]
        ELSE IF conn # NULL
        THEN [sel |-> NULL, selConn |-> Some(conn[1].id),
              fired |-> <<Fired("onConnectionClick", conn[1].id)>>, drawn |-> TRUE]
        ELSE [sel |-> NULL, selConn |-> NULL, fired |-> <<>>, drawn |-> TRUE]

\* the browser delivers mouseup and, because the button went down on the
\* canvas as well, the click that follows it at the same position
HandleMouseUp ==
    /\ lastMousePos # NULL
    /\ dragStart' = NULL
    /\ isDragging' = FALSE
    /\ IF dragStart # NULL
       THEN \E out \in {clickOutcome(lastMousePos[1])} :
                /\ selectedNode' = out.sel
                /\ selectedConnection' = out.selConn
                /\ event' = IF out.drawn
                            THEN Drawn(Ev("mouseup+click", lastMousePos[1], 0,
                                          out.fired, "", <<>>))
                            ELSE Ev("mouseup+click", lastMousePos[1], 0, out.fired,
                                    "", <<>>)
       ELSE /\ UNCHANGED <<selectedNode, selectedConnection>>
            /\ event' = Ev("mouseup", lastMousePos[1], 0, <<>>, "", <<>>)
    /\ UNCHANGED <<auxVars, config, nodes, connections, layers, hoveredNode, viewport,
                   lastMousePos, hasDragged, nextOid>>

wheelPan_ByFactor(p, pan, zoomRatio, zoomFactor) ==
    RSub(R(p), RMul(RSub(R(p), pan), zoomFactor))

\* handleWheel: mousePos.x - (mousePos.x - this.viewport.x) * zoomRatio
wheelPan(p, pan, zoomRatio, zoomFactor) ==
    RSub(R(p), RMul(RSub(R(p), pan), zoomRatio))

HandleWheel(mousePos, deltaYPositive) ==
    LET zoomFactor == IF deltaYPositive THEN Rat(9, 10) ELSE Rat(11, 10)
        newZoom == clamp(RMul(viewport.zoom, zoomFactor), minZoom, maxZoom)
        zoomRatio == RDiv(newZoom, viewport.zoom)
    IN  /\ IF newZoom # viewport.zoom
           THEN /\ viewport' = [x |-> wheelPan(mousePos.x, viewport.x, zoomRatio, zoomFactor),
                                y |-> wheelPan(mousePos.y, viewport.y, zoomRatio, zoomFactor),
                                zoom |-> newZoom]
                /\ event' = Drawn(Ev("wheel", mousePos, 0,
                                     <<Fired("onZoomChange", 0)>>, "", <<>>))
           ELSE /\ UNCHANGED viewport
                /\ event' = Ev("wheel", mousePos, 0, <<>>, "", <<>>)
        /\ UNCHANGED <<auxVars, config, nodes, connections, layers, selectedNode,
                       hoveredNode, selectedConnection, isDragging, dragStart,
                       lastMousePos, hasDragged, nextOid>>

\* setZoom(zoom): zoom about the centre of the canvas
SetZoom(zoom) ==
    LET newZoom == clamp(zoom, minZoom, maxZoom)
        centerX == Rat(canvasClient.width, 2)
        centerY == Rat(canvasClient.height, 2)
        zoomRatio == RDiv(newZoom, viewport.zoom)
    IN  /\ viewport' = [x |-> RSub(centerX, RMul(RSub(centerX, viewport.x), zoomRatio)),
                        y |-> RSub(centerY, RMul(RSub(centerY, viewport.y), zoomRatio)),
                        zoom |-> newZoom]
        /\ event' = Ev("setZoom", NoPos, 0, <<Fired("onZoomChange", 0)>>, "", <<>>)
        /\ UNCHANGED <<auxVars, config, nodes, connections, layers, selectedNode,
                       hoveredNode, selectedConnection, isDragging, dragStart,
                       lastMousePos, hasDragged, nextOid>>

----------------------------------------------------------------------------
(* CanvasEngine: public API calls *)

ApiAddNode(nodeData) ==
    /\ nodes' = addNode(nodes, nextOid, nodeData)
    /\ nextOid' = nextOid + 1
    /\ event' = Ev("addNode", NoPos, nodeData.id, <<>>, "", <<>>)
    /\ UNCHANGED <<auxVars, config, connections, layers, selectedNode, hoveredNode,
                   selectedConnection, viewport, pointerVars>>

ApiRemoveNode(nodeId) ==
    /\ nodes' = deleteNode(nodes, nodeId)
    /\ connections' = removeNodeConnections(connections, nodeId)
    /\ selectedNode' = removeNodeSelection(selectedNode, nodeId)
    /\ event' = Ev("removeNode", NoPos, nodeId, <<>>, "", <<>>)
    /\ UNCHANGED <<auxVars, config, layers, hoveredNode, selectedConnection, viewport,
                   pointerVars, nextOid>>

validConnection_FromOnly(connection) == connection.from # 0

\* addConnection: typeof connection === 'object' && connection.from &&
\* connection.to; an absent field is 0
validConnection(connection) == connection.from # 0 /\ connection.to # 0

\* addConnection(connection): returns the stored connection, or logs an error
\* and returns null
ApiAddConnection(connection) ==
    /\ IF validConnection(connection)
       THEN LET conn == newConnection(connection, generateId(nextOid))
            IN  /\ connections' = Append(connections, conn)
                /\ nextOid' = nextOid + 1
                /\ event' = Returning(Ev("addConnection", NoPos, 0, <<>>, "", <<>>),
                                      conn.id)
       ELSE /\ UNCHANGED <<connections, nextOid>>
            /\ event' = Ev("addConnection", NoPos, 0, <<>>, "",
                           <<Call(0, "console.error")>>)
    /\ UNCHANGED <<auxVars, config, nodes, layers, selectedNode, hoveredNode,
                   selectedConnection, viewport, pointerVars>>

sameEnds_Directed(conn, fromId, toId) == conn.from = fromId /\ conn.to = toId

\* removeConnection: the filter's test, in either direction
sameEnds(conn, fromId, toId) ==
    \/ conn.from = fromId /\ conn.to = toId
    \/ conn.from = toId /\ conn.to = fromId

\* removeConnection(fromId, toId): returns whether the list became shorter
ApiRemoveConnection(fromId, toId) ==
    LET Kept(conn) == ~sameEnds(conn, fromId, toId)
    IN  /\ connections' = SelectSeq(connections, Kept)
        /\ event' = Returning(WithArgs(Ev("removeConnection", NoPos, 0, <<>>, "", <<>>),
                                       <<fromId, toId>>),
                              Len(connections') < Len(connections))
        /\ UNCHANGED <<auxVars, config, nodes, layers, selectedNode, hoveredNode,
                       selectedConnection, viewport, pointerVars, nextOid>>

\* connections.find(conn => conn.id === connectionId): index, 0 when none
findConnectionById(conns, connectionId) ==
    IF \E i \in 1..Len(conns) : conns[i].id = connectionId
    THEN Min({i \in 1..Len(conns) : conns[i].id = connectionId})
    ELSE 0

\* updateConnection: Object.assign(connection, updates)
assignConnection(conns, connectionId, updates) ==
    LET k == findConnectionById(conns, connectionId)
    IN  [i \in 1..Len(conns) |->
            IF i = k THEN [conns[i] EXCEPT !.label = updates.label,
                                           !.type = updates.type]
            ELSE conns[i]]

\* updateConnection(connectionId, updates): returns the connection, or null
ApiUpdateConnection(connectionId, updates) ==
    /\ connections' = assignConnection(connections, connectionId, updates)
    /\ event' = IF findConnectionById(connections, connectionId) # 0
                THEN Returning(Ev("updateConnection", NoPos, connectionId, <<>>, "", <<>>),
                               connectionId)
                ELSE Ev("updateConnection", NoPos, connectionId, <<>>, "", <<>>)
    /\ UNCHANGED <<auxVars, config, nodes, layers, selectedNode, hoveredNode,
                   selectedConnection, viewport, pointerVars, nextOid>>

\* clearAll(), with clearHighlights()
ApiClearAll ==
    /\ nodes' = <<>>
    /\ connections' = <<>>
    /\ selectedNode' = NULL
    /\ hoveredNode' = NULL
    /\ highlightedNode' = NULL
    /\ highlightedNodes' = <<>>
    /\ highlightedConnections' = <<>>
    /\ event' = Ev("clearAll", NoPos, 0, <<>>, "", <<>>)
    /\ UNCHANGED <<config, layers, selectedConnection, viewport, pointerVars,
                   nextOid>>

\* addLayer: { visible: true, ..., ...layerInfo }; visibleInfo is the visible
\* field of layerInfo, NULL when layerInfo has none
ApiAddLayer(layerId, visibleInfo) ==
    /\ layers' = [l \in DOMAIN layers \cup {layerId} |->
                    IF l = layerId
                    THEN [visible |-> IF visibleInfo = NULL THEN TRUE
                                      ELSE visibleInfo[1]]
                    ELSE layers[l]]
    /\ event' = Ev("addLayer", NoPos, 0, <<>>, "", <<>>)
    /\ UNCHANGED <<auxVars, config, nodes, connections, selectedNode, hoveredNode,
                   selectedConnection, viewport, pointerVars, nextOid>>

ApiSetLayerVisibility(layerId, visible) ==
    /\ layers' = IF layerId \in DOMAIN layers
                 THEN [layers EXCEPT ![layerId].visible = visible]
                 ELSE layers
    /\ event' = Ev("setLayerVisibility", NoPos, 0, <<>>, "", <<>>)
    /\ UNCHANGED <<auxVars, config, nodes, connections, selectedNode, hoveredNode,
                   selectedConnection, viewport, pointerVars, nextOid>>

\* the least and the greatest of a non-empty finite set of numbers
RMinOf(S) == CHOOSE m \in S : \A o \in S : RLe(m, o)
RMaxOf(S) == CHOOSE m \in S : \A o \in S : RLe(o, m)

\* zoomToFit: the nodes that enter the bounding box
fitNodes == {i \in 1..Len(nodes) : isLayerVisible(nodes[i].layer)}

\* zoomToFit: bounding box of the rectangles of the visible nodes
fitBounds ==
    [minX |-> RMinOf({RSub(nodes[i].x, Rat(config.nodeSize.width, 2)) : i \in fitNodes}),
     minY |-> RMinOf({RSub(nodes[i].y, Rat(config.nodeSize.height, 2)) : i \in fitNodes}),
     maxX |-> RMaxOf({RAdd(nodes[i].x, Rat(config.nodeSize.width, 2)) : i \in fitNodes}),
     maxY |-> RMaxOf({RAdd(nodes[i].y, Rat(config.nodeSize.height, 2)) : i \in fitNodes})]

fitScale_Largest(scaleX, scaleY, cap) == RMin(RMax(scaleX, scaleY), cap)

\* zoomToFit: Math.min(scaleX, scaleY, this.viewport.maxZoom)
fitScale(scaleX, scaleY, cap) == RMin(RMin(scaleX, scaleY), cap)

ZoomToFit ==
    /\ IF Len(nodes) = 0 \/ fitNodes = {}
       THEN /\ UNCHANGED viewport
            /\ event' = Ev("zoomToFit", NoPos, 0, <<>>, "", <<>>)
       ELSE LET b == fitBounds
                contentWidth == RSub(b.maxX, b.minX)
                contentHeight == RSub(b.maxY, b.minY)
                canvasWidth == R(canvasClient.width)
                canvasHeight == R(canvasClient.height)
                scaleX == RDiv(RSub(canvasWidth, R(config.padding * 2)), contentWidth)
                scaleY == RDiv(RSub(canvasHeight, R(config.padding * 2)), contentHeight)
                scale == fitScale(scaleX, scaleY, maxZoom)
            IN  /\ viewport' =
                      [zoom |-> scale,
                       x |-> RSub(RDiv(canvasWidth, R(2)),
                                  RMul(RDiv(RAdd(b.minX, b.maxX), R(2)), scale)),
                       y |-> RSub(RDiv(canvasHeight, R(2)),
                                  RMul(RDiv(RAdd(b.minY, b.maxY), R(2)), scale))]
                /\ event' = Ev("zoomToFit", NoPos, 0,
                               <<Fired("onZoomChange", 0)>>, "", <<>>)
    /\ UNCHANGED <<config, nodes, connections, layers, selectedNode, hoveredNode,
                   selectedConnection, pointerVars, nextOid, auxVars>>

\* setData: data.nodes.forEach(node => this.addNode(node)), each node a new
\* object
RECURSIVE addNodes(_, _, _)
addNodes(ns, oid, nodeDatas) ==
    IF nodeDatas = <<>> THEN ns
    ELSE addNodes(addNode(ns, oid, Head(nodeDatas)), oid + 1, Tail(nodeDatas))

\* setData: data.connections.forEach(connection => this.addConnection(connection))
RECURSIVE addConnections(_, _, _)
addConnections(conns, oid, specs) ==
    IF specs = <<>> THEN conns
    ELSE addConnections(IF validConnection(Head(specs))
                        THEN Append(conns, newConnection(Head(specs), generateId(oid)))
                        ELSE conns,
                        oid + 1, Tail(specs))

\* setData: data.layers.forEach(layer => this.addLayer(layer.id, layer)); a
\* later entry with the same id replaces an earlier one
addLayers(layerInfos) ==
    [l \in {layerInfos[i].id : i \in 1..Len(layerInfos)} |->
        LET last == Max({i \in 1..Len(layerInfos) : layerInfos[i].id = l})
        IN  [visible |-> layerInfos[last].visible]]

clearedNodes_Kept(ns) == ns

\* setData: this.nodes.clear()
clearedNodes(ns) == <<>>

\* setData(data): the engine's part; the zoomToFit it schedules is a timer
SetData(data) ==
    /\ nodes' = addNodes(clearedNodes(nodes), nextOid, data.nodes)
    /\ connections' = addConnections(<<>>, nextOid + Len(data.nodes), data.connections)
    /\ layers' = addLayers(data.layers)
    /\ nextOid' = nextOid + Len(data.nodes) + Len(data.connections)
    /\ event' = WithArgs(Ev("setData", NoPos, 0, <<>>, "", <<>>), <<data>>)
    /\ UNCHANGED <<auxVars, config, selectedNode, hoveredNode, selectedConnection,
                   viewport, pointerVars>>

\* clearHighlights(), as the timer of highlightConnections calls it
ClearHighlights ==
    /\ highlightedNode' = NULL
    /\ highlightedNodes' = <<>>
    /\ highlightedConnections' = <<>>
    /\ event' = Ev("clearHighlights", NoPos, 0, <<>>, "", <<>>)
    /\ UNCHANGED <<config, nodes, connections, layers, selectedNode, hoveredNode,
                   selectedConnection, viewport, pointerVars, nextOid>>

----------------------------------------------------------------------------
(* ArchitectureApp: commands and the history *)

\* the part of the engine a command acts on
Scene == [nodes |-> nodes, connections |-> connections,
          selectedNode |-> selectedNode, nextOid |-> nextOid,
          nodeCounts |-> nodeCounts]

NodesOfLayer(ns, l) == {i \in 1..Len(ns) : ns[i].layer = l}

\* LayerManager.updateStats: the node counts; updateNodeCount is called for
\* the layers that occur among the nodes, and only for layers the manager has
updateStats(counts, ns) ==
    [l \in DOMAIN counts |->
        IF NodesOfLayer(ns, l) # {} THEN Cardinality(NodesOfLayer(ns, l))
        ELSE counts[l]]

\* LayerManager.setLayerData followed by updateStats, as loadTemplateData
\* calls them: addLayer gives a layer nodeCount 0, or the nodeCount that the
\* layer's data carry ({ nodeCount: 0, ..., ...layerInfo })
loadedCounts(layerInfos, ns) ==
    updateStats([l \in {layerInfos[i].id : i \in 1..Len(layerInfos)} |->
                    LET last == Max({i \in 1..Len(layerInfos) : layerInfos[i].id = l})
                    IN  IF "nodeCount" \in DOMAIN layerInfos[last]
                        THEN layerInfos[last].nodeCount ELSE 0],
                ns)

\* createAddNodeCommand(nodeData)
createAddNodeCommand(cid, nodeData) ==
    [cid |-> cid, kind |-> "addNode", nodeData |-> nodeData]

\* createAddConnectionCommand(fromId, toId), with the label the prompt returned
createAddConnectionCommand(cid, fromId, toId, label) ==
    [cid |-> cid, kind |-> "addConnection", fromId |-> fromId, toId |-> toId,
     label |-> label]

\* createRemoveNodeCommand(nodeId), for a stored node: copies of the node and
\* of its connections are kept for undo
createRemoveNodeCommand(cid, nodeId) ==
    LET Incident(conn) == conn.from = nodeId \/ conn.to = nodeId
    IN  [cid |-> cid, kind |-> "removeNode", nodeId |-> nodeId,
         nodeData |-> GetNode(nodeId),
         connections |-> SelectSeq(connections, Incident)]

\* createUpdateConnectionCommand(connectionId, updates), for a connection that
\* is found: its old data are kept for undo
createUpdateConnectionCommand(cid, connectionId, updates) ==
    LET connection == connections[findConnectionById(connections, connectionId)]
    IN  [cid |-> cid, kind |-> "updateConnection", connectionId |-> connectionId,
         updates |-> updates,
         oldData |-> [label |-> connection.label, type |-> connection.type]]

\* createDeleteConnectionCommand(connection), for a stored connection
createDeleteConnectionCommand(cid, connection) ==
    [cid |-> cid, kind |-> "deleteConnection", connection |-> connection]

\* createUpdateNodeCommand(nodeId, oldData, newData)
createUpdateNodeCommand(cid, nodeId, oldData, newData) ==
    [cid |-> cid, kind |-> "updateNode", nodeId |-> nodeId, oldData |-> oldData,
     newData |-> newData]

\* Object.assign(node, data) on the node stored under nodeId, if any: every
\* key that data has is written, a key that data lacks is left as it is
assignNode(ns, nodeId, data) ==
    [i \in 1..Len(ns) |->
        IF ns[i].id = nodeId
        THEN [ns[i] EXCEPT
                !.x = IF "x" \in DOMAIN data THEN data.x ELSE @,
                !.y = IF "y" \in DOMAIN data THEN data.y ELSE @,
                !.layer = IF "layer" \in DOMAIN data THEN data.layer ELSE @,
                !.label = IF "label" \in DOMAIN data THEN data.label ELSE @,
                !.code = IF "code" \in DOMAIN data /\ data.code # Undefined
                         THEN data.code ELSE @]
        ELSE ns[i]]

\* what addConnection receives in the undo of a remove-node command: the
\* call is addConnection(conn.from, conn.to), so the connection argument is a
\* node id, which is no object and has neither from nor to
restoreArgs(conns) ==
    [i \in 1..Len(conns) |-> [id |-> 0, from |-> 0, to |-> 0, label |-> "", type |-> ""]]

\* the commands whose execute and undo end with layerManager.updateStats():
\* add node, remove node, and update node when it changes the layer of a
\* stored node
callsUpdateStats(cmd, sc) ==
    \/ cmd.kind \in {"addNode", "removeNode"}
    \/ /\ cmd.kind = "updateNode"
       /\ \E i \in 1..Len(sc.nodes) : sc.nodes[i].id = cmd.nodeId
       /\ cmd.newData.layer # cmd.oldData.layer

withStats(cmd, sc, after) ==
    IF callsUpdateStats(cmd, sc)
    THEN [after EXCEPT !.nodeCounts = updateStats(@, after.nodes)]
    ELSE after

\* command.execute()
CmdExecute(cmd, sc) ==
  withStats(cmd, sc,
    CASE cmd.kind = "addNode" ->
           [sc EXCEPT !.nodes = addNode(sc.nodes, sc.nextOid, cmd.nodeData),
                      !.nextOid = sc.nextOid + 1]
      [] cmd.kind = "addConnection" ->
           [sc EXCEPT !.connections =
                          addConnections(sc.connections, sc.nextOid,
                                         <<[id |-> 0, from |-> cmd.fromId,
                                            to |-> cmd.toId, label |-> cmd.label,
                                            type |-> ""]>>),
                      !.nextOid = sc.nextOid + 1]
      [] cmd.kind = "removeNode" ->
           [sc EXCEPT !.nodes = deleteNode(sc.nodes, cmd.nodeId),
                      !.connections = removeNodeConnections(sc.connections, cmd.nodeId),
                      !.selectedNode = removeNodeSelection(sc.selectedNode, cmd.nodeId)]
      [] cmd.kind = "updateConnection" ->
           [sc EXCEPT !.connections =
                          assignConnection(sc.connections, cmd.connectionId, cmd.updates)]
      [] cmd.kind = "deleteConnection" ->
           LET Kept(conn) == ~sameEnds(conn, cmd.connection.from, cmd.connection.to)
           IN  [sc EXCEPT !.connections = SelectSeq(sc.connections, Kept)]
      [] cmd.kind = "updateNode" ->
           [sc EXCEPT !.nodes = assignNode(sc.nodes, cmd.nodeId, cmd.newData)])

\* command.undo()
CmdUndo(cmd, sc) ==
  withStats(cmd, sc,
    CASE cmd.kind = "addNode" ->
           [sc EXCEPT !.nodes = deleteNode(sc.nodes, cmd.nodeData.id),
                      !.connections = removeNodeConnections(sc.connections,
                                                            cmd.nodeData.id),
                      !.selectedNode = removeNodeSelection(sc.selectedNode,
                                                           cmd.nodeData.id)]
      [] cmd.kind = "addConnection" ->
           LET Kept(conn) == ~sameEnds(conn, cmd.fromId, cmd.toId)
           IN  [sc EXCEPT !.connections = SelectSeq(sc.connections, Kept)]
      [] cmd.kind = "removeNode" ->
           [sc EXCEPT !.nodes = addNode(sc.nodes, sc.nextOid, cmd.nodeData),
                      !.connections =
                          addConnections(sc.connections, sc.nextOid + 1,
                                         restoreArgs(cmd.connections)),
                      !.nextOid = sc.nextOid + 1]
      [] cmd.kind = "updateConnection" ->
           [sc EXCEPT !.connections =
                          assignConnection(sc.connections, cmd.connectionId, cmd.oldData)]
      [] cmd.kind = "deleteConnection" ->
           [sc EXCEPT !.connections =
                          addConnections(sc.connections, sc.nextOid,
                                         <<cmd.connection>>),
                      !.nextOid = sc.nextOid + 1]
      [] cmd.kind = "updateNode" ->
           [sc EXCEPT !.nodes = assignNode(sc.nodes, cmd.nodeId, cmd.oldData)])

SetScene(sc) ==
    /\ nodes' = sc.nodes
    /\ connections' = sc.connections
    /\ selectedNode' = sc.selectedNode
    /\ nextOid' = sc.nextOid
    /\ nodeCounts' = sc.nodeCounts

RemoveCid(log, cid) == LET Keep(c) == c # cid IN SelectSeq(log, Keep)

truncateRedo_Keep(hist, idx) == hist

\* executeCommand: this.commandHistory.slice(0, this.historyIndex + 1)
truncateRedo(hist, idx) == SubSeq(hist, 1, idx + 1)

evictOldest_KeepFirst(hist, cap) ==
    IF Len(hist) > cap THEN SubSeq(hist, 1, cap) ELSE hist

\* executeCommand: if (length > maxHistorySize) slice(-maxHistorySize)
evictOldest(hist, cap) ==
    IF Len(hist) > cap THEN SubSeq(hist, Len(hist) - cap + 1, Len(hist)) ELSE hist

\* executeCommand(command)
ExecuteCommand(command) ==
    /\ SetScene(CmdExecute(command, Scene))
    /\ applied' = Append(applied, command.cid)
    /\ commandHistory' = evictOldest(Append(truncateRedo(commandHistory, historyIndex),
                                            command), maxHistorySize)
    /\ historyIndex' = Len(commandHistory') - 1
    /\ nextCid' = nextCid + 1
    /\ event' = Ev("execute", NoPos, command.cid, <<>>, "",
                   <<Call(command.cid, "execute")>>)

\* handleNodeCreation -> createNode -> executeCommand
HandleNodeCreation(layer) ==
    LET nodeData == [id |-> nextNodeId,
                     x |-> RDiv(RAdd(RNeg(viewport.x), Rat(canvasClient.width, 2)),
                                viewport.zoom),
                     y |-> RDiv(RAdd(RNeg(viewport.y), Rat(canvasClient.height, 2)),
                                viewport.zoom),
                     layer |-> layer, label |-> "Node", code |-> ""]
    IN  /\ nextNodeId' = nextNodeId + 1
        /\ ExecuteCommand(createAddNodeCommand(nextCid, nodeData))
        /\ UNCHANGED <<auxVars, config, layers, hoveredNode, selectedConnection, viewport,
                       pointerVars, maxHistorySize, uiVars>>

undoIndex_Unguarded(idx) == idx - 1

\* undo: the index after the call (decremented only inside the guard)
undoIndex(idx) == IF idx >= 0 THEN idx - 1 ELSE idx

undoTarget_First(idx) == 0

\* undo: the command undone is this.commandHistory[this.historyIndex]
undoTarget(idx) == idx

Undo ==
    /\ IF historyIndex >= 0
       THEN LET command == commandHistory[undoTarget(historyIndex) + 1]
            IN  /\ SetScene(CmdUndo(command, Scene))
                /\ applied' = RemoveCid(applied, command.cid)
                /\ event' = Ev("undo", NoPos, command.cid, <<>>, "Undone",
                               <<Call(command.cid, "undo")>>)
       ELSE /\ UNCHANGED <<nodes, connections, selectedNode, nextOid, applied,
                           nodeCounts>>
            /\ event' = Ev("undo", NoPos, 0, <<>>, "Nothing to undo", <<>>)
    /\ historyIndex' = undoIndex(historyIndex)
    /\ UNCHANGED <<auxVars, config, layers, hoveredNode, selectedConnection, viewport,
                   pointerVars, commandHistory, maxHistorySize, nextNodeId, nextCid,
                   uiVars>>

Redo ==
    /\ IF historyIndex < Len(commandHistory) - 1
       THEN LET command == commandHistory[(historyIndex + 1) + 1]
            IN  /\ historyIndex' = historyIndex + 1
                /\ SetScene(CmdExecute(command, Scene))
                /\ applied' = Append(applied, command.cid)
                /\ event' = Ev("redo", NoPos, command.cid, <<>>, "Redone",
                               <<Call(command.cid, "execute")>>)
       ELSE /\ UNCHANGED <<nodes, connections, selectedNode, nextOid, applied,
                           historyIndex, nodeCounts>>
            /\ event' = Ev("redo", NoPos, 0, <<>>, "Nothing to redo", <<>>)
    /\ UNCHANGED <<auxVars, config, layers, hoveredNode, selectedConnection, viewport,
                   pointerVars, commandHistory, maxHistorySize, nextNodeId, nextCid,
                   uiVars>>

\* Utils.easing.easeOutQuad
easeOutQuad(t) == RMul(t, RSub(R(2), t))

\* animateZoom(fromZoom, toZoom): Utils.animate is started, its frames follow
animateZoom(name, fromZoom, toZoom) ==
    /\ zoomAnims' = zoomAnims \cup {[from |-> fromZoom, to |-> toZoom]}
    /\ event' = Ev(name, NoPos, 0, <<>>, "", <<>>)
    /\ UNCHANGED <<engineVars, historyVars, connectionMode,
                   selectedNodeForConnection, pendingFits, pendingClears,
                   currentEditingConnection>>

ZoomIn == animateZoom("zoomIn", viewport.zoom,
                      RMin(RMul(viewport.zoom, Rat(12, 10)), maxZoom))

ZoomOut == animateZoom("zoomOut", viewport.zoom,
                       RMax(RDiv(viewport.zoom, Rat(12, 10)), minZoom))

ResetZoom == animateZoom("resetZoom", viewport.zoom, R(1))

\* one step() of Utils.animate at the given progress: onUpdate -> setZoom
AnimateStep(a, progress) ==
    /\ SetZoom(RAdd(a.from, RMul(RSub(a.to, a.from), easeOutQuad(progress))))
    /\ zoomAnims' = IF RLt(progress, R(1)) THEN zoomAnims ELSE zoomAnims \ {a}
    /\ UNCHANGED <<historyVars, connectionMode, selectedNodeForConnection,
                   pendingFits, pendingClears, currentEditingConnection>>

\* toggleConnectionMode()
ToggleConnectionMode ==
    /\ connectionMode' = ~connectionMode
    /\ selectedNodeForConnection' = IF connectionMode THEN NULL
                                   ELSE selectedNodeForConnection
    /\ event' = Ev("toggleConnectionMode", NoPos, 0, <<>>, "", <<>>)
    /\ UNCHANGED <<engineVars, historyVars, zoomAnims, pendingFits, pendingClears,
                   currentEditingConnection>>

connectionExists_Directed(conns, fromId, toId) ==
    \E i \in 1..Len(conns) : conns[i].from = fromId /\ conns[i].to = toId

\* handleNodeClick: connections.some(...), in either direction
connectionExists(conns, fromId, toId) ==
    \E i \in 1..Len(conns) :
        \/ conns[i].from = fromId /\ conns[i].to = toId
        \/ conns[i].from = toId /\ conns[i].to = fromId

\* a click on a stored node: handleClick clears the connection selection and
\* calls onNodeClick, which is handleNodeClick(node)
HandleNodeClick(node, label) ==
    IF connectionMode
    THEN IF selectedNodeForConnection = NULL
         THEN /\ selectedNodeForConnection' = Some(Ref(node))
              /\ selectedNode' = Some(Ref(node))
              /\ selectedConnection' = NULL
              /\ event' = Drawn(Ev("nodeClick", NoPos, node.id, <<>>, "", <<>>))
              /\ UNCHANGED <<auxVars, config, nodes, connections, layers, hoveredNode,
                             viewport, pointerVars, nextOid, historyVars,
                             connectionMode, zoomAnims, pendingFits, pendingClears,
                             currentEditingConnection>>
         ELSE IF selectedNodeForConnection[1].id # node.id
         THEN LET fromId == selectedNodeForConnection[1].id
                  command == createAddConnectionCommand(nextCid, fromId, node.id, label)
              IN  /\ IF ~connectionExists(connections, fromId, node.id)
                     THEN LET sc == CmdExecute(command, Scene)
                          IN  /\ nodes' = sc.nodes
                              /\ connections' = sc.connections
                              /\ nextOid' = sc.nextOid
                              /\ nodeCounts' = sc.nodeCounts
                              /\ applied' = Append(applied, command.cid)
                              /\ commandHistory' =
                                    evictOldest(Append(truncateRedo(commandHistory,
                                                                    historyIndex),
                                                       command), maxHistorySize)
                              /\ historyIndex' = Len(commandHistory') - 1
                              /\ nextCid' = nextCid + 1
                              /\ event' = Drawn(Ev("nodeClick", NoPos, node.id, <<>>, "",
                                             <<Call(command.cid, "execute")>>))
                     ELSE /\ UNCHANGED <<nodes, connections, nextOid, applied,
                                         commandHistory, historyIndex, nextCid,
                                         nodeCounts>>
                          /\ event' = Drawn(Ev("nodeClick", NoPos, node.id, <<>>,
                                         "Connection already exists between these nodes.",
                                         <<>>))
                  /\ selectedNodeForConnection' = NULL
                  /\ selectedNode' = NULL
                  /\ selectedConnection' = NULL
                  /\ UNCHANGED <<auxVars, config, layers, hoveredNode, viewport,
                                 pointerVars, maxHistorySize, nextNodeId,
                                 connectionMode, zoomAnims, pendingFits,
                                 pendingClears, currentEditingConnection>>
         ELSE /\ selectedNodeForConnection' = NULL
              /\ selectedNode' = NULL
              /\ selectedConnection' = NULL
              /\ event' = Drawn(Ev("nodeClick", NoPos, node.id, <<>>, "", <<>>))
              /\ UNCHANGED <<auxVars, config, nodes, connections, layers, hoveredNode,
                             viewport, pointerVars, nextOid, historyVars,
                             connectionMode, zoomAnims, pendingFits, pendingClears,
                             currentEditingConnection>>
    ELSE /\ selectedConnection' = NULL
         /\ event' = Ev("nodeClick", NoPos, node.id, <<>>, "", <<>>)
         /\ UNCHANGED <<auxVars, config, nodes, connections, layers, selectedNode,
                        hoveredNode, viewport, pointerVars, nextOid, appVars>>

\* a click on a connection that is drawn: handleClick selects it and calls
\* onConnectionClick, which is handleConnectionClick(connection); outside
\* connection mode the edit modal opens on it
HandleConnectionClick(connection) ==
    /\ selectedNode' = NULL
    /\ selectedConnection' = Some(connection.id)
    /\ currentEditingConnection' =
          IF ~connectionMode /\ HasNode(connection.from) /\ HasNode(connection.to)
          THEN Some(connection.id)
          ELSE currentEditingConnection
    /\ event' = Drawn(Ev("connectionClick", NoPos, connection.id, <<>>, "", <<>>))
    /\ UNCHANGED <<auxVars, config, nodes, connections, layers, hoveredNode,
                   viewport, pointerVars, nextOid, historyVars, connectionMode,
                   selectedNodeForConnection, zoomAnims, pendingFits, pendingClears>>

\* handleConnectionEdit: the form of the edit modal is submitted. When the
\* connection is no longer stored createUpdateConnectionCommand returns null
\* and executeCommand(null) throws at command.execute()
HandleConnectionEdit(updates) ==
    IF currentEditingConnection = NULL
    THEN /\ event' = Ev("connectionEdit", NoPos, 0, <<>>, "", <<>>)
         /\ UNCHANGED <<engineVars, appVars>>
    ELSE LET connectionId == currentEditingConnection[1]
         IN  IF findConnectionById(connections, connectionId) = 0
             THEN /\ event' = Throwing(Ev("connectionEdit", NoPos, connectionId,
                                         <<>>, "", <<>>))
                  /\ UNCHANGED <<engineVars, appVars>>
             ELSE /\ ExecuteCommand(createUpdateConnectionCommand(nextCid, connectionId,
                                                                 updates))
                  /\ currentEditingConnection' = NULL
                  /\ UNCHANGED <<auxVars, config, layers, hoveredNode,
                                 selectedConnection, viewport, pointerVars,
                                 maxHistorySize, nextNodeId, connectionMode,
                                 selectedNodeForConnection, zoomAnims, pendingFits,
                                 pendingClears>>

\* executeCommand(createRemoveNodeCommand(nodeId)) for a stored node
RemoveNodeByCommand(nodeId) ==
    /\ HasNode(nodeId)
    /\ ExecuteCommand(createRemoveNodeCommand(nextCid, nodeId))
    /\ UNCHANGED <<auxVars, config, layers, hoveredNode, selectedConnection,
                   viewport, pointerVars, maxHistorySize, nextNodeId, uiVars>>

\* handleDeleteConnection, confirmed, while the connection the modal was
\* opened on is stored: its command is executed, the modal is hidden and the
\* connection selection cleared
HandleDeleteConnection ==
    IF currentEditingConnection = NULL
    THEN /\ event' = Ev("deleteConnection", NoPos, 0, <<>>, "", <<>>)
         /\ UNCHANGED <<engineVars, appVars>>
    ELSE LET connection ==
                 connections[findConnectionById(connections,
                                                currentEditingConnection[1])]
         IN  /\ ExecuteCommand(createDeleteConnectionCommand(nextCid, connection))
             /\ currentEditingConnection' = NULL
             /\ selectedConnection' = NULL
             /\ UNCHANGED <<auxVars, config, layers, hoveredNode, viewport,
                            pointerVars, maxHistorySize, nextNodeId, connectionMode,
                            selectedNodeForConnection, zoomAnims, pendingFits,
                            pendingClears>>

\* updateNode(nodeId, updates): the old data are a copy of the whole node
UpdateNode(nodeId, updates) ==
    IF ~HasNode(nodeId)
    THEN /\ event' = Ev("updateNode", NoPos, nodeId, <<>>, "",
                        <<Call(0, "console.error")>>)
         /\ UNCHANGED <<engineVars, appVars>>
    ELSE /\ ExecuteCommand(createUpdateNodeCommand(nextCid, nodeId, GetNode(nodeId),
                                                   updates))
         /\ UNCHANGED <<auxVars, config, layers, hoveredNode, selectedConnection,
                        viewport, pointerVars, maxHistorySize, nextNodeId, uiVars>>

\* exportDiagramAsJSON: the snapshot as JSON.parse(JSON.stringify(...)) gives
\* it back, plain data without object identity; the layer data are those of
\* the layer manager, which importDiagram only logs
exportDiagramAsJSON ==
    [nodes |-> [i \in 1..Len(nodes) |->
                   [id |-> nodes[i].id, x |-> nodes[i].x, y |-> nodes[i].y,
                    layer |-> nodes[i].layer, label |-> nodes[i].label,
                    code |-> nodes[i].code]],
     connections |-> connections,
     layers |-> layers,
     viewport |-> viewport]

\* what addConnection receives from importDiagram: the call is
\* addConnection(connData.from, connData.to), so the connection argument is a
\* node id, which is no object and has neither from nor to
importArgs(conns) ==
    [i \in 1..Len(conns) |-> [id |-> 0, from |-> 0, to |-> 0, label |-> "", type |-> ""]]

\* importDiagram(diagramData)
ImportDiagram(diagramData) ==
    /\ nodes' = addNodes(<<>>, nextOid, diagramData.nodes)
    /\ connections' = addConnections(<<>>, nextOid + Len(diagramData.nodes),
                                     importArgs(diagramData.connections))
    /\ nextOid' = nextOid + Len(diagramData.nodes)
    /\ selectedNode' = NULL
    /\ hoveredNode' = NULL
    /\ highlightedNode' = NULL
    /\ highlightedNodes' = <<>>
    /\ highlightedConnections' = <<>>
    /\ viewport' = diagramData.viewport
    /\ commandHistory' = <<>>
    /\ historyIndex' = -1
    /\ applied' = <<>>
    /\ nodeCounts' = updateStats(nodeCounts, nodes')
    /\ event' = WithArgs(Ev("importDiagram", NoPos, 0, <<>>, "",
                            [i \in 1..Len(diagramData.connections) |->
                                Call(0, "console.error")]),
                         <<diagramData>>)
    /\ UNCHANGED <<config, layers, selectedConnection, pointerVars, maxHistorySize,
                   nextNodeId, nextCid, uiVars>>

\* loadTemplateData(templateData): setData, setLayerData and updateStats;
\* setData sets one timer for zoomToFit and loadTemplateData another
LoadTemplateData(templateData) ==
    /\ SetData(templateData)
    /\ nodeCounts' = loadedCounts(templateData.layers, nodes')
    /\ pendingFits' = pendingFits + 2
    /\ UNCHANGED <<commandHistory, historyIndex, maxHistorySize, nextNodeId,
                   nextCid, applied, connectionMode, selectedNodeForConnection,
                   zoomAnims, pendingClears, currentEditingConnection>>

\* LayerManager.getLayerData(): the layers as a list
RECURSIVE layerData(_)
layerData(ids) ==
    IF ids = {} THEN <<>>
    ELSE LET l == CHOOSE l \in ids : TRUE
         IN  <<[id |-> l, visible |-> layers[l].visible,
                 nodeCount |-> nodeCounts[l]]>> \o layerData(ids \ {l})

\* exportData: the data written to the file, as JSON.parse gives them back
exportData ==
    [layers |-> layerData(DOMAIN nodeCounts),
     nodes |-> [i \in 1..Len(nodes) |->
                   [id |-> nodes[i].id, x |-> nodes[i].x, y |-> nodes[i].y,
                    layer |-> nodes[i].layer, label |-> nodes[i].label,
                    code |-> nodes[i].code]],
     connections |-> connections,
     viewport |-> viewport]

\* importData(data): setData, setLayerData, updateStats, and the viewport of
\* the data if they have one
ImportData(data) ==
    /\ nodes' = addNodes(clearedNodes(nodes), nextOid, data.nodes)
    /\ connections' = addConnections(<<>>, nextOid + Len(data.nodes), data.connections)
    /\ layers' = addLayers(data.layers)
    /\ nextOid' = nextOid + Len(data.nodes) + Len(data.connections)
    /\ viewport' = IF "viewport" \in DOMAIN data THEN data.viewport ELSE viewport
    /\ nodeCounts' = loadedCounts(data.layers, nodes')
    /\ pendingFits' = pendingFits + 1
    /\ event' = WithArgs(Drawn(Ev("importData", NoPos, 0, <<>>, "", <<>>)), <<data>>)
    /\ UNCHANGED <<auxVars, config, selectedNode, hoveredNode, selectedConnection,
                   pointerVars, commandHistory, historyIndex, maxHistorySize,
                   nextNodeId, nextCid, applied, connectionMode,
                   selectedNodeForConnection, zoomAnims, pendingClears,
                   currentEditingConnection>>

\* clearAllNodes(), with the answer to confirm()
ClearAllNodes(confirmed) ==
    IF confirmed
    THEN /\ ApiClearAll
         /\ nodeCounts' = updateStats(nodeCounts, nodes')
         /\ UNCHANGED <<commandHistory, historyIndex, maxHistorySize, nextNodeId,
                        nextCid, applied, uiVars>>
    ELSE /\ event' = Ev("clearAllNodes", NoPos, 0, <<>>, "", <<>>)
         /\ UNCHANGED <<engineVars, appVars>>

\* the distinct elements of a sequence, in order of first occurrence
RECURSIVE Distinct(_)
Distinct(seq) ==
    IF seq = <<>> THEN <<>>
    ELSE LET rest == Distinct(SubSeq(seq, 1, Len(seq) - 1))
             last == seq[Len(seq)]
         IN  IF \E i \in 1..Len(rest) : rest[i] = last THEN rest ELSE Append(rest, last)

\* highlightConnections(nodeId): the node, its connections and their
\* endpoints are highlighted, and a timer is set to clear the highlights
HighlightConnections(nodeId) ==
    /\ IF HasNode(nodeId)
       THEN LET Incident(conn) == conn.from = nodeId \/ conn.to = nodeId
                conns == SelectSeq(connections, Incident)
                ends == Distinct([k \in 1..(2 * Len(conns)) |->
                                    IF k % 2 = 1 THEN conns[(k + 1) \div 2].from
                                    ELSE conns[k \div 2].to])
                Stored(id) == HasNode(id)
            IN  /\ highlightedNode' = Some(Ref(GetNode(nodeId)))
                /\ highlightedConnections' = [i \in 1..Len(conns) |-> conns[i].id]
                /\ highlightedNodes' =
                      LET ids == SelectSeq(ends, Stored)
                      IN  [i \in 1..Len(ids) |-> Ref(GetNode(ids[i]))]
                /\ pendingClears' = pendingClears + 1
       ELSE UNCHANGED <<auxVars, pendingClears>>
    /\ event' = Ev("highlightConnections", NoPos, nodeId, <<>>, "", <<>>)
    /\ UNCHANGED <<config, nodes, connections, layers, selectedNode, hoveredNode,
                   selectedConnection, viewport, pointerVars, nextOid,
                   historyVars, connectionMode, selectedNodeForConnection,
                   zoomAnims, pendingFits, currentEditingConnection>>

----------------------------------------------------------------------------
(* Initial state: after the constructors of CanvasEngine and ArchitectureApp *)

EmptyLayers == [l \in {} |-> [visible |-> TRUE]]

NoGesture == [active |-> FALSE, node |-> NULL, down |-> NoPos,
              exceeded |-> FALSE, zoomKept |-> TRUE]

InitEngine ==
    /\ config = appConfig
    /\ nodes = <<>>
    /\ connections = <<>>
    /\ layers = EmptyLayers
    /\ selectedNode = NULL
    /\ hoveredNode = NULL
    /\ selectedConnection = NULL
    /\ viewport = [x |-> R(0), y |-> R(0), zoom |-> R(1)]
    /\ isDragging = FALSE
    /\ dragStart = NULL
    /\ lastMousePos = NULL
    /\ hasDragged = FALSE
    /\ nextOid = 1
    /\ highlightedNode = NULL
    /\ highlightedNodes = <<>>
    /\ highlightedConnections = <<>>

InitApp ==
    /\ commandHistory = <<>>
    /\ historyIndex = -1
    /\ nextNodeId = 1000
    /\ connectionMode = FALSE
    /\ selectedNodeForConnection = NULL
    /\ zoomAnims = {}
    /\ pendingFits = 0
    /\ pendingClears = 0
    /\ currentEditingConnection = NULL
    /\ nextCid = 1
    /\ applied = <<>>
    /\ nodeCounts = [l \in {} |-> 0]

InitObs ==
    /\ event = Ev("init", NoPos, 0, <<>>, "", <<>>)
    /\ gesture = NoGesture
    /\ steps = 0

----------------------------------------------------------------------------
(* Inputs *)

LayerIds == {"ui", "db"}
NodeIds == {1, 2, 3}
WorldPositions == {[x |-> R(0), y |-> R(0)], [x |-> R(100), y |-> R(0)]}
\* screen points: at zoom 1, (72,0) lies on the node at (100,0) only, (69,0)
\* and (67,0) on both nodes, (300,200) on none; (67,0) is exactly
\* dragThreshold away from (72,0)
Points == {[x |-> 72, y |-> 0], [x |-> 69, y |-> 0], [x |-> 67, y |-> 0],
           [x |-> 300, y |-> 200]}
ZoomTargets == {Rat(1, 20), Rat(21, 200), Rat(29, 10), R(5)}

----------------------------------------------------------------------------
(* Specification of the command history: node creation, undo, redo *)

Init ==
    /\ InitEngine
    /\ InitApp
    /\ InitObs
    /\ maxHistorySize \in 2..MaxHistorySize

NodeCreation ==
    \E layer \in LayerIds :
        /\ nextCid <= MaxCommands
        /\ nextOid <= MaxOid
        /\ HandleNodeCreation(layer)
        /\ UNCHANGED <<gesture, steps>>

UndoKey == Undo /\ UNCHANGED <<gesture, steps>>

RedoKey == nextOid <= MaxOid /\ Redo /\ UNCHANGED <<gesture, steps>>

Next == NodeCreation \/ UndoKey \/ RedoKey

Spec == Init /\ [][Next]_vars

----------------------------------------------------------------------------
(* Specification of the scene store: addNode, removeNode, addConnection    *)
(* and selection by a pointer-down, on the identity viewport               *)

\* probes: (0,0) on a node at (0,0) only, (50,0) on nodes at both positions,
\* (100,0) on a node at (100,0) only, (50,50) on none; (50,5) lies 5 away from
\* the segment between the two positions
ProbePoints == {[x |-> 0, y |-> 0], [x |-> 50, y |-> 0], [x |-> 100, y |-> 0],
                [x |-> 50, y |-> 5], [x |-> 50, y |-> 50]}
DownPoints == {[x |-> 0, y |-> 0], [x |-> 50, y |-> 0], [x |-> 50, y |-> 50]}

InitScene ==
    /\ InitEngine
    /\ InitApp
    /\ InitObs
    /\ maxHistorySize = MaxHistorySize

SceneStep ==
    /\ steps < MaxSceneOps
    /\ steps' = steps + 1
    /\ UNCHANGED <<appVars, gesture>>

SceneAddNode ==
    \E id \in NodeIds, pos \in WorldPositions :
        /\ ApiAddNode([id |-> id, x |-> pos.x, y |-> pos.y, layer |-> "ui"])
        /\ SceneStep

SceneRemoveNode ==
    \E id \in NodeIds : ApiRemoveNode(id) /\ SceneStep

SceneAddConnection ==
    \E from \in NodeIds, to \in NodeIds :
        /\ from # to
        /\ ApiAddConnection([id |-> 0, from |-> from, to |-> to, label |-> "",
                             type |-> ""])
        /\ SceneStep

ScenePointerDown ==
    \E p \in DownPoints : HandleMouseDown(p) /\ SceneStep

NextScene ==
    \/ SceneAddNode
    \/ SceneRemoveNode
    \/ SceneAddConnection
    \/ ScenePointerDown

SpecScene == InitScene /\ [][NextScene]_vars

----------------------------------------------------------------------------
(* Specification of layer visibility: two nodes, the connections between   *)
(* them, and the layer registry                                            *)

LayerNodeIds == {1, 2}
LayerNodePos(id) == IF id = 1 THEN [x |-> R(0), y |-> R(0)]
                    ELSE [x |-> R(100), y |-> R(0)]

LayersAddNode ==
    \E id \in LayerNodeIds, layer \in LayerIds :
        /\ ApiAddNode([id |-> id, x |-> LayerNodePos(id).x,
                       y |-> LayerNodePos(id).y, layer |-> layer])
        /\ SceneStep

LayersRemoveNode ==
    \E id \in LayerNodeIds : ApiRemoveNode(id) /\ SceneStep

LayersAddConnection ==
    \E from \in LayerNodeIds, to \in LayerNodeIds :
        /\ from # to
        /\ ApiAddConnection([id |-> 0, from |-> from, to |-> to, label |-> "",
                             type |-> ""])
        /\ SceneStep

LayersAddLayer ==
    \E l \in LayerIds, info \in {NULL, Some(FALSE)} :
        ApiAddLayer(l, info) /\ SceneStep

LayersSetLayerVisibility ==
    \E l \in LayerIds, v \in BOOLEAN : ApiSetLayerVisibility(l, v) /\ SceneStep

NextLayers ==
    \/ LayersAddNode
    \/ LayersRemoveNode
    \/ LayersAddConnection
    \/ LayersAddLayer
    \/ LayersSetLayerVisibility

SpecLayers == InitScene /\ [][NextLayers]_vars

----------------------------------------------------------------------------
(* Specification of the pointer state machine: mousedown, mousemove,       *)
(* mouseup followed by click, wheel at the pointer; the scene is built by  *)
(* addNode between gestures                                                *)

DistSq(p, q) == (p.x - q.x) * (p.x - q.x) + (p.y - q.y) * (p.y - q.y)

PointerStep ==
    /\ steps < MaxPointerEvents
    /\ steps' = steps + 1
    /\ UNCHANGED appVars

PointerAddNode ==
    \E id \in LayerNodeIds :
        /\ dragStart = NULL
        /\ nextOid <= MaxPointerNodes
        /\ ApiAddNode([id |-> id, x |-> LayerNodePos(id).x, y |-> LayerNodePos(id).y,
                       layer |-> "ui"])
        /\ UNCHANGED <<appVars, gesture, steps>>

PointerDown ==
    \E p \in Points :
        /\ PointerStep
        /\ HandleMouseDown(p)
        /\ gesture' = [active |-> TRUE, node |-> getNodeAtPosition(p), down |-> p,
                       exceeded |-> FALSE, zoomKept |-> TRUE]

PointerMove ==
    \E p \in Points :
        /\ PointerStep
        /\ HandleMouseMove(p)
        /\ gesture' = IF gesture.active
                      THEN [gesture EXCEPT !.exceeded =
                               @ \/ DistSq(p, gesture.down) > dragThreshold * dragThreshold]
                      ELSE gesture

PointerUp ==
    /\ PointerStep
    /\ HandleMouseUp
    /\ gesture' = [gesture EXCEPT !.active = FALSE]

PointerWheel ==
    \E deltaYPositive \in BOOLEAN :
        /\ PointerStep
        /\ lastMousePos # NULL
        /\ HandleWheel(lastMousePos[1], deltaYPositive)
        /\ gesture' = [gesture EXCEPT !.zoomKept = FALSE]

NextPointer ==
    \/ PointerAddNode
    \/ PointerDown
    \/ PointerMove
    \/ PointerUp
    \/ PointerWheel

SpecPointer == InitScene /\ [][NextPointer]_vars

\* the pointer leaves the canvas: bindEvents registers no listener for it, and
\* a button released outside the canvas sends no mouseup to the canvas
MouseLeave ==
    /\ event' = Ev("mouseleave", NoPos, 0, <<>>, "", <<>>)
    /\ UNCHANGED engineVars

PointerLeave == PointerStep /\ MouseLeave /\ UNCHANGED gesture

NextLeave == NextPointer \/ PointerLeave

SpecLeave == InitScene /\ [][NextLeave]_vars

----------------------------------------------------------------------------
(* Specification of zooming: wheel at a screen point, setZoom *)

ZoomStep ==
    /\ steps < MaxZoomEvents
    /\ steps' = steps + 1
    /\ UNCHANGED <<appVars, gesture>>

ZoomWheel ==
    \E p \in Points, deltaYPositive \in BOOLEAN :
        ZoomStep /\ HandleWheel(p, deltaYPositive)

ZoomSetZoom ==
    \E zoom \in ZoomTargets : ZoomStep /\ SetZoom(zoom)

NextZoom ==
    \/ ZoomWheel
    \/ ZoomSetZoom

SpecZoom == InitScene /\ [][NextZoom]_vars

----------------------------------------------------------------------------
(* Specification of fitting and zooming: a scene of nodes on two layers,   *)
(* zoomToFit, wheel, setZoom and the animated zoom controls                *)

\* the engine as the application configures it, and one with the default
\* node size and the application's padding
FitConfigs == {appConfig, [nodeSize |-> [width |-> 120, height |-> 80], padding |-> 30]}
FitPositions == {[x |-> R(0 - 100), y |-> R(0)], [x |-> R(100), y |-> R(0)],
                 [x |-> R(10000), y |-> R(400)]}
FitPoint == [x |-> 300, y |-> 200]
FitProgress == {Rat(1, 2), R(1)}

InitFit ==
    /\ InitApp
    /\ InitObs
    /\ maxHistorySize = MaxHistorySize
    /\ config \in FitConfigs
    /\ nodes = <<>>
    /\ connections = <<>>
    /\ layers = EmptyLayers
    /\ selectedNode = NULL
    /\ hoveredNode = NULL
    /\ selectedConnection = NULL
    /\ viewport = [x |-> R(0), y |-> R(0), zoom |-> R(1)]
    /\ isDragging = FALSE
    /\ dragStart = NULL
    /\ lastMousePos = NULL
    /\ hasDragged = FALSE
    /\ nextOid = 1
    /\ highlightedNode = NULL
    /\ highlightedNodes = <<>>
    /\ highlightedConnections = <<>>

FitStep ==
    /\ steps < MaxZoomEvents
    /\ steps' = steps + 1
    /\ UNCHANGED gesture

FitAddNode ==
    \E pos \in FitPositions, layer \in LayerIds :
        /\ nextOid <= MaxFitNodes
        /\ ApiAddNode([id |-> nextOid, x |-> pos.x, y |-> pos.y, layer |-> layer])
        /\ UNCHANGED <<appVars, gesture, steps>>

FitHideLayer ==
    /\ ApiAddLayer("db", Some(FALSE))
    /\ UNCHANGED <<appVars, gesture, steps>>

FitZoomToFit == FitStep /\ ZoomToFit /\ UNCHANGED appVars

FitWheel ==
    \E deltaYPositive \in BOOLEAN :
        FitStep /\ HandleWheel(FitPoint, deltaYPositive) /\ UNCHANGED appVars

FitSetZoom ==
    \E zoom \in {Rat(1, 20), R(5)} : FitStep /\ SetZoom(zoom) /\ UNCHANGED appVars

FitZoomIn == FitStep /\ ZoomIn

FitZoomOut == FitStep /\ ZoomOut

FitResetZoom == FitStep /\ ResetZoom

FitAnimateStep ==
    \E a \in zoomAnims, progress \in FitProgress : FitStep /\ AnimateStep(a, progress)

NextFit ==
    \/ FitAddNode
    \/ FitHideLayer
    \/ FitZoomToFit
    \/ FitWheel
    \/ FitSetZoom
    \/ FitZoomIn
    \/ FitZoomOut
    \/ FitResetZoom
    \/ FitAnimateStep

SpecFit == InitFit /\ [][NextFit]_vars

----------------------------------------------------------------------------
(* Specification of the connection list: addConnection with complete and   *)
(* incomplete specs, removeConnection, updateConnection, and removals and  *)
(* updates of things that may not exist                                    *)

\* 0 stands for an absent from or to
ConnEnds == {0, 1, 2}
\* the connection 1 -> 2 is given the id 7, the others get generated ids
ConnSpec(from, to) ==
    [id |-> IF from = 1 /\ to = 2 THEN 7 ELSE 0, from |-> from, to |-> to,
     label |-> "", type |-> ""]
ConnIds == {7, 8}
ConnUpdates == {[label |-> "calls", type |-> "api"]}

ConnStep ==
    /\ steps < MaxConnOps
    /\ steps' = steps + 1
    /\ UNCHANGED <<appVars, gesture>>

ConnAddNode ==
    \E id \in LayerNodeIds :
        /\ ConnStep
        /\ ApiAddNode([id |-> id, x |-> LayerNodePos(id).x, y |-> LayerNodePos(id).y,
                       layer |-> "ui"])

ConnAddConnection ==
    \E from \in ConnEnds, to \in ConnEnds :
        ConnStep /\ ApiAddConnection(ConnSpec(from, to))

ConnRemoveConnection ==
    \E fromId \in LayerNodeIds, toId \in LayerNodeIds :
        ConnStep /\ ApiRemoveConnection(fromId, toId)

ConnUpdateConnection ==
    \E connectionId \in ConnIds, updates \in ConnUpdates :
        ConnStep /\ ApiUpdateConnection(connectionId, updates)

ConnRemoveNode ==
    \E id \in LayerNodeIds : ConnStep /\ ApiRemoveNode(id)

ConnAddLayer == ConnStep /\ ApiAddLayer("db", NULL)

ConnSetLayerVisibility ==
    \E layerId \in LayerIds, visible \in BOOLEAN :
        ConnStep /\ ApiSetLayerVisibility(layerId, visible)

NextConn ==
    \/ ConnAddNode
    \/ ConnAddConnection
    \/ ConnRemoveConnection
    \/ ConnUpdateConnection
    \/ ConnRemoveNode
    \/ ConnAddLayer
    \/ ConnSetLayerVisibility

SpecConn == InitScene /\ [][NextConn]_vars

----------------------------------------------------------------------------
(* Specification of scene replacement: setData and its delayed zoomToFit,  *)
(* selection by pointer, highlighting, clearAll                            *)

DataA == [layers |-> <<[id |-> "ui", visible |-> TRUE]>>,
          nodes |-> <<[id |-> 1, x |-> R(0), y |-> R(0), layer |-> "ui"],
                      [id |-> 2, x |-> R(230), y |-> R(0), layer |-> "ui"]>>,
          connections |-> <<[id |-> 7, from |-> 1, to |-> 2, label |-> "calls",
                             type |-> "api"]>>]
DataB == [layers |-> <<[id |-> "db", visible |-> FALSE]>>,
          nodes |-> <<[id |-> 1, x |-> R(0), y |-> R(200), layer |-> "db"],
                      [id |-> 3, x |-> R(100), y |-> R(200), layer |-> "ui"]>>,
          connections |-> <<[id |-> 0, from |-> 3, to |-> 1, label |-> "",
                             type |-> ""]>>]
Datasets == {DataA, DataB}
\* at the initial viewport (0,0) lies on node 1 of DataA, (115,5) near its
\* connection and on no node, (115,200) on nothing of DataA
DataPoints == {[x |-> 0, y |-> 0], [x |-> 115, y |-> 5], [x |-> 115, y |-> 200]}

DataStep ==
    /\ steps < MaxDataOps
    /\ steps' = steps + 1
    /\ UNCHANGED gesture

DataSetData ==
    \E data \in Datasets :
        /\ DataStep
        /\ SetData(data)
        /\ pendingFits' = pendingFits + 1
        /\ UNCHANGED <<historyVars, connectionMode, selectedNodeForConnection,
                       zoomAnims, pendingClears, currentEditingConnection>>

\* the timer of setData runs
DataFitTimer ==
    /\ pendingFits > 0
    /\ pendingFits' = pendingFits - 1
    /\ ZoomToFit
    /\ UNCHANGED <<historyVars, connectionMode, selectedNodeForConnection,
                   zoomAnims, pendingClears, currentEditingConnection, gesture,
                   steps>>

DataPointerDown ==
    \E p \in DataPoints : DataStep /\ HandleMouseDown(p) /\ UNCHANGED appVars

DataPointerUp == DataStep /\ HandleMouseUp /\ UNCHANGED appVars

DataHighlight ==
    \E nodeId \in {1, 3} : DataStep /\ HighlightConnections(nodeId)

\* the timer of highlightConnections runs
DataClearTimer ==
    /\ pendingClears > 0
    /\ pendingClears' = pendingClears - 1
    /\ ClearHighlights
    /\ UNCHANGED <<historyVars, connectionMode, selectedNodeForConnection,
                   zoomAnims, pendingFits, currentEditingConnection, gesture,
                   steps>>

DataClearAll == DataStep /\ ApiClearAll /\ UNCHANGED appVars

NextData ==
    \/ DataSetData
    \/ DataFitTimer
    \/ DataPointerDown
    \/ DataPointerUp
    \/ DataHighlight
    \/ DataClearTimer
    \/ DataClearAll

SpecData == InitScene /\ [][NextData]_vars

\* the diagram is exported and the file is imported again
DataExportImport == DataStep /\ ImportDiagram(exportDiagramAsJSON)

NextPort == NextData \/ DataExportImport

SpecPort == InitScene /\ [][NextPort]_vars

\* the step DataFitTimer takes, and no other action: one pending zoomToFit
\* of setData fewer
FitTimerRuns == pendingFits > 0 /\ pendingFits' = pendingFits - 1

\* a timer that is due runs
SpecDataFair == SpecData /\ WF_pendingFits(FitTimerRuns)

----------------------------------------------------------------------------
(* Specifications of interactive editing on a loaded template: SpecConnect *)
(* has connection mode, node clicks, undo and redo; SpecEdit adds the      *)
(* connection edit modal and the remove-node command                       *)

\* node 3 has no connection; 1 -> 2 exists
EditTemplate ==
    [layers |-> <<[id |-> "ui", visible |-> TRUE]>>,
     nodes |-> <<[id |-> 1, x |-> R(0), y |-> R(0), layer |-> "ui"],
                 [id |-> 2, x |-> R(230), y |-> R(0), layer |-> "ui"],
                 [id |-> 3, x |-> R(0), y |-> R(210), layer |-> "ui"]>>,
     connections |-> <<[id |-> 7, from |-> 1, to |-> 2, label |-> "calls",
                        type |-> "api"]>>]
\* the first object identity free after the template is loaded
InitialOid == 1 + Len(EditTemplate.nodes) + Len(EditTemplate.connections)
EditLabels == {"uses"}
EditUpdates == {[label |-> "reads", type |-> "data"]}

\* the state after initialize(): loadInitialData has passed the template to
\* loadTemplateData, whose setData and own timer each scheduled a zoomToFit
InitEdit ==
    /\ config = appConfig
    /\ nodes = addNodes(<<>>, 1, EditTemplate.nodes)
    /\ connections = addConnections(<<>>, 1 + Len(EditTemplate.nodes),
                                    EditTemplate.connections)
    /\ layers = addLayers(EditTemplate.layers)
    /\ nextOid = InitialOid
    /\ selectedNode = NULL
    /\ hoveredNode = NULL
    /\ selectedConnection = NULL
    /\ viewport = [x |-> R(0), y |-> R(0), zoom |-> R(1)]
    /\ isDragging = FALSE
    /\ dragStart = NULL
    /\ lastMousePos = NULL
    /\ hasDragged = FALSE
    /\ highlightedNode = NULL
    /\ highlightedNodes = <<>>
    /\ highlightedConnections = <<>>
    /\ commandHistory = <<>>
    /\ historyIndex = -1
    /\ maxHistorySize = MaxHistorySize
    /\ nextNodeId = 1000
    /\ connectionMode = FALSE
    /\ selectedNodeForConnection = NULL
    /\ zoomAnims = {}
    /\ pendingFits = 2
    /\ pendingClears = 0
    /\ currentEditingConnection = NULL
    /\ nextCid = 1
    /\ applied = <<>>
    /\ nodeCounts = loadedCounts(EditTemplate.layers, nodes)
    /\ InitObs

\* the user acts once the timers of the start-up (100 ms) have run
EditStep ==
    /\ pendingFits = 0
    /\ steps < MaxEditOps
    /\ steps' = steps + 1
    /\ UNCHANGED gesture

EditToggleConnectionMode == EditStep /\ ToggleConnectionMode

EditNodeClick ==
    \E i \in 1..Len(nodes), label \in EditLabels :
        /\ EditStep
        /\ connectionMode /\ selectedNodeForConnection # NULL => nextCid <= MaxEditCommands
        /\ HandleNodeClick(nodes[i], label)

EditUndo == EditStep /\ Undo

EditRedo == EditStep /\ Redo

\* a timer set by loadTemplateData runs
EditFitTimer ==
    /\ pendingFits > 0
    /\ pendingFits' = pendingFits - 1
    /\ ZoomToFit
    /\ UNCHANGED <<historyVars, connectionMode, selectedNodeForConnection,
                   zoomAnims, pendingClears, currentEditingConnection, gesture,
                   steps>>

NextConnect ==
    \/ EditToggleConnectionMode
    \/ EditNodeClick
    \/ EditUndo
    \/ EditRedo
    \/ EditFitTimer

SpecConnect == InitEdit /\ [][NextConnect]_vars

\* a click on a connection whose two nodes are stored (getConnectionAtPosition
\* skips the others)
EditConnectionClick ==
    \E i \in 1..Len(connections) :
        /\ EditStep
        /\ HasNode(connections[i].from) /\ HasNode(connections[i].to)
        /\ HandleConnectionClick(connections[i])

EditConnectionEdit ==
    \E updates \in EditUpdates :
        /\ EditStep
        /\ nextCid <= MaxEditCommands
        /\ HandleConnectionEdit(updates)

EditRemoveNode ==
    \E id \in NodeIds :
        /\ EditStep
        /\ nextCid <= MaxEditCommands
        /\ RemoveNodeByCommand(id)

NextEdit ==
    \/ EditToggleConnectionMode
    \/ EditNodeClick
    \/ EditUndo
    \/ EditRedo
    \/ EditFitTimer
    \/ EditConnectionClick
    \/ EditConnectionEdit
    \/ EditRemoveNode

SpecEdit == InitEdit /\ [][NextEdit]_vars

----------------------------------------------------------------------------
(* Specification of the commands of the application on a loaded template:  *)
(* node creation, node update, connection by clicks, connection edit and    *)
(* deletion, undo and redo                                                  *)

\* nodes 1 and 2 are connected in both directions, node 3 is not connected;
\* node 2 has no code attribute; the template fits the canvas at zoom 1
CmdTemplate ==
    [layers |-> <<[id |-> "ui", visible |-> TRUE], [id |-> "db", visible |-> TRUE]>>,
     nodes |-> <<[id |-> 1, x |-> R(-300), y |-> R(-225), layer |-> "ui",
                  label |-> "Gateway", code |-> "route()"],
                 [id |-> 2, x |-> R(300), y |-> R(225), layer |-> "db",
                  label |-> "Orders"],
                 [id |-> 3, x |-> R(300), y |-> R(-225), layer |-> "ui",
                  label |-> "Cache", code |-> ""]>>,
     connections |-> <<[id |-> 7, from |-> 1, to |-> 2, label |-> "calls",
                        type |-> "api"],
                       [id |-> 8, from |-> 2, to |-> 1, label |-> "replies",
                        type |-> "event"]>>]
CmdPatches == {[label |-> "Billing", layer |-> "ui", code |-> "pay()"]}
CmdPatchedNodes == {1, 2}

\* the state after initialize() has loaded the template
InitCmd ==
    /\ config = appConfig
    /\ nodes = addNodes(<<>>, 1, CmdTemplate.nodes)
    /\ connections = addConnections(<<>>, 1 + Len(CmdTemplate.nodes),
                                    CmdTemplate.connections)
    /\ layers = addLayers(CmdTemplate.layers)
    /\ nextOid = 1 + Len(CmdTemplate.nodes) + Len(CmdTemplate.connections)
    /\ selectedNode = NULL
    /\ hoveredNode = NULL
    /\ selectedConnection = NULL
    /\ viewport = [x |-> R(0), y |-> R(0), zoom |-> R(1)]
    /\ isDragging = FALSE
    /\ dragStart = NULL
    /\ lastMousePos = NULL
    /\ hasDragged = FALSE
    /\ highlightedNode = NULL
    /\ highlightedNodes = <<>>
    /\ highlightedConnections = <<>>
    /\ commandHistory = <<>>
    /\ historyIndex = -1
    /\ maxHistorySize = MaxHistorySize
    /\ nextNodeId = 1000
    /\ connectionMode = FALSE
    /\ selectedNodeForConnection = NULL
    /\ zoomAnims = {}
    /\ pendingFits = 2
    /\ pendingClears = 0
    /\ currentEditingConnection = NULL
    /\ nextCid = 1
    /\ applied = <<>>
    /\ nodeCounts = loadedCounts(CmdTemplate.layers, nodes)
    /\ InitObs

\* the user acts once the timers of the start-up (100 ms) have run
CmdStep ==
    /\ pendingFits = 0
    /\ steps < MaxCmdOps
    /\ steps' = steps + 1
    /\ UNCHANGED gesture

\* a step that records a command
CmdRecorded == CmdStep /\ nextCid <= MaxCmdCommands

CmdFitTimer ==
    /\ pendingFits > 0
    /\ pendingFits' = pendingFits - 1
    /\ ZoomToFit
    /\ UNCHANGED <<historyVars, connectionMode, selectedNodeForConnection,
                   zoomAnims, pendingClears, currentEditingConnection, gesture,
                   steps>>

CmdNodeCreation ==
    \E layer \in {"ui"} :
        /\ CmdRecorded
        /\ HandleNodeCreation(layer)

CmdUpdateNode ==
    \E nodeId \in CmdPatchedNodes, updates \in CmdPatches :
        /\ CmdRecorded
        /\ UpdateNode(nodeId, updates)

CmdToggleConnectionMode == CmdStep /\ ToggleConnectionMode

CmdNodeClick ==
    \E i \in 1..Len(nodes), label \in EditLabels :
        /\ CmdStep
        /\ connectionMode /\ selectedNodeForConnection # NULL => nextCid <= MaxCmdCommands
        /\ HandleNodeClick(nodes[i], label)

CmdConnectionClick ==
    \E i \in 1..Len(connections) :
        /\ CmdStep
        /\ HasNode(connections[i].from) /\ HasNode(connections[i].to)
        /\ HandleConnectionClick(connections[i])

CmdConnectionEdit ==
    \E updates \in EditUpdates :
        /\ CmdRecorded
        /\ HandleConnectionEdit(updates)

\* the delete button of the modal, while its connection is stored
CmdDeleteConnection ==
    /\ CmdRecorded
    /\ currentEditingConnection # NULL
          => findConnectionById(connections, currentEditingConnection[1]) # 0
    /\ HandleDeleteConnection

CmdUndoKey == CmdStep /\ Undo

CmdRedoKey == CmdStep /\ Redo

NextCmd ==
    \/ CmdFitTimer
    \/ CmdNodeCreation
    \/ CmdUpdateNode
    \/ CmdToggleConnectionMode
    \/ CmdNodeClick
    \/ CmdConnectionClick
    \/ CmdConnectionEdit
    \/ CmdDeleteConnection
    \/ CmdUndoKey
    \/ CmdRedoKey

SpecCmd == InitCmd /\ [][NextCmd]_vars

----------------------------------------------------------------------------
(* Specification of a session in which the whole scene is replaced: the    *)
(* template is loaded again, data or a diagram file are imported, all      *)
(* nodes are cleared; with node creation, undo and redo                    *)

\* the file that exportDiagramAsJSON wrote in an earlier session, after the
\* template was loaded and one node was created through the form
SavedDiagram ==
    [nodes |-> <<[id |-> 1, x |-> R(-300), y |-> R(-225), layer |-> "ui",
                  label |-> "Gateway", code |-> "route()"],
                 [id |-> 2, x |-> R(300), y |-> R(225), layer |-> "db",
                  label |-> "Orders", code |-> Undefined],
                 [id |-> 3, x |-> R(300), y |-> R(-225), layer |-> "ui",
                  label |-> "Cache", code |-> ""],
                 [id |-> 1000, x |-> R(0), y |-> R(0), layer |-> "ui",
                  label |-> "Node", code |-> ""]>>,
     connections |-> <<[id |-> 7, from |-> 1, to |-> 2, label |-> "calls",
                        type |-> "api"],
                       [id |-> 8, from |-> 2, to |-> 1, label |-> "replies",
                        type |-> "event"]>>,
     layers |-> [l \in {"ui", "db"} |-> [visible |-> TRUE]],
     viewport |-> [x |-> R(400), y |-> R(300), zoom |-> R(1)]]

\* the user acts once the timers that are due have run
SessionStep ==
    /\ pendingFits = 0
    /\ steps < MaxSessionOps
    /\ steps' = steps + 1
    /\ UNCHANGED gesture

SessionFitTimer ==
    /\ pendingFits > 0
    /\ pendingFits' = pendingFits - 1
    /\ ZoomToFit
    /\ UNCHANGED <<historyVars, connectionMode, selectedNodeForConnection,
                   zoomAnims, pendingClears, currentEditingConnection, gesture,
                   steps>>

SessionNodeCreation ==
    \E layer \in {"ui"} :
        /\ SessionStep
        /\ nextCid <= MaxSessionCommands
        /\ HandleNodeCreation(layer)

SessionLoadTemplate == SessionStep /\ LoadTemplateData(CmdTemplate)

SessionImportData == SessionStep /\ ImportData(exportData)

SessionClearAllNodes ==
    \E confirmed \in BOOLEAN : SessionStep /\ ClearAllNodes(confirmed)

SessionImportDiagram ==
    \E diagramData \in {exportDiagramAsJSON, SavedDiagram} :
        SessionStep /\ ImportDiagram(diagramData)

SessionUndoKey == SessionStep /\ Undo

SessionRedoKey == SessionStep /\ Redo

NextSession ==
    \/ SessionFitTimer
    \/ SessionNodeCreation
    \/ SessionLoadTemplate
    \/ SessionImportData
    \/ SessionClearAllNodes
    \/ SessionImportDiagram
    \/ SessionUndoKey
    \/ SessionRedoKey

SpecSession == InitCmd /\ [][NextSession]_vars

----------------------------------------------------------------------------
(* Specification of node edits and drags on a loaded template: updateNode, *)
(* pointer-down, move and pointer-up, undo and redo                        *)

\* screen points at the fitted viewport (400, 300, zoom 1): (100,75) is the
\* centre of node 1, (110,80) lies on node 1 and more than dragThreshold away
\* from (100,75); node 1 stays under both points in the drags of a run
DragPoints == {[x |-> 100, y |-> 75], [x |-> 110, y |-> 80]}

\* the user acts once the timers of the start-up (100 ms) have run
DragStep ==
    /\ pendingFits = 0
    /\ steps < MaxDragOps
    /\ steps' = steps + 1

DragFitTimer ==
    /\ pendingFits > 0
    /\ pendingFits' = pendingFits - 1
    /\ ZoomToFit
    /\ UNCHANGED <<historyVars, connectionMode, selectedNodeForConnection,
                   zoomAnims, pendingClears, currentEditingConnection, gesture,
                   steps>>

DragUpdateNode ==
    \E nodeId \in {1}, updates \in CmdPatches :
        /\ DragStep
        /\ nextCid <= MaxDragCommands
        /\ UpdateNode(nodeId, updates)
        /\ UNCHANGED gesture

DragPointerDown ==
    \E p \in DragPoints :
        /\ DragStep
        /\ HandleMouseDown(p)
        /\ gesture' = [active |-> TRUE, node |-> getNodeAtPosition(p), down |-> p,
                       exceeded |-> FALSE, zoomKept |-> TRUE]
        /\ UNCHANGED appVars

DragPointerMove ==
    \E p \in DragPoints :
        /\ DragStep
        /\ HandleMouseMove(p)
        /\ gesture' = IF gesture.active
                      THEN [gesture EXCEPT !.exceeded =
                               @ \/ DistSq(p, gesture.down) > dragThreshold * dragThreshold]
                      ELSE gesture
        /\ UNCHANGED appVars

DragPointerUp ==
    /\ DragStep
    /\ HandleMouseUp
    /\ gesture' = [gesture EXCEPT !.active = FALSE]
    /\ UNCHANGED appVars

DragUndoKey == DragStep /\ Undo /\ UNCHANGED gesture

DragRedoKey == DragStep /\ Redo /\ UNCHANGED gesture

NextDrag ==
    \/ DragFitTimer
    \/ DragUpdateNode
    \/ DragPointerDown
    \/ DragPointerMove
    \/ DragPointerUp
    \/ DragUndoKey
    \/ DragRedoKey

SpecDrag == InitCmd /\ [][NextDrag]_vars

----------------------------------------------------------------------------
(* Properties of the command history (Spec) *)

Cids(hist) == [i \in 1..Len(hist) |-> hist[i].cid]
Suffix(seq, n) == SubSeq(seq, Len(seq) - n + 1, Len(seq))
MinOf(a, b) == IF a <= b THEN a ELSE b

\* a step in which executeCommand ran
ExecuteStep == event'.op = "execute"

\* C1: executeCommand(c) discards every command at an index greater than
\* historyIndex before appending c: afterwards c is the last entry, nothing
\* is redoable, no discarded command is in the history, and the entries
\* before c are the latest of the commands that were at or below the index.
C1_ExecuteTruncates ==
    [][ExecuteStep =>
          LET old == commandHistory
              new == commandHistory'
              kept == SubSeq(new, 1, Len(new) - 1)
          IN  /\ Len(new) >= 1
              /\ new[Len(new)].cid = event'.id
              /\ historyIndex' = Len(new) - 1
              /\ \A j \in 1..Len(old) :
                    j > historyIndex + 1 =>
                        \A k \in 1..Len(new) : new[k].cid # old[j].cid
              /\ Len(kept) <= historyIndex + 1
              /\ kept = Suffix(SubSeq(old, 1, historyIndex + 1), Len(kept))]_vars

\* C1 witness: C1, C2, C3 executed, two undos, C4 executed: history [C1, C4]
C1_Witness ==
    /\ event.op = "execute"
    /\ Cids(commandHistory) = <<1, 4>>
    /\ historyIndex = 1

\* C2: the history never holds more than maxHistorySize commands; an append
\* that would exceed it evicts the oldest entries, the index is set to the
\* newest entry, so the most recent maxHistorySize commands stay undoable.
C2_BoundedHistory ==
    /\ [](Len(commandHistory) <= maxHistorySize)
    /\ [][ExecuteStep =>
            LET full == Append(SubSeq(Cids(commandHistory), 1, historyIndex + 1),
                               event'.id)
                n == MinOf(Len(full), maxHistorySize)
            IN  /\ Len(commandHistory') = n
                /\ Cids(commandHistory') = Suffix(full, n)
                /\ historyIndex' = n - 1]_vars

\* C2 witness: capacity 2, three commands executed (the oldest evicted), two
\* undos done and a third undo answered by the notice
C2_Witness ==
    /\ maxHistorySize = 2
    /\ event.op = "undo"
    /\ event.toast = "Nothing to undo"
    /\ Cids(commandHistory) = <<2, 3>>
    /\ applied = <<1>>

NodeIdsOf(ns) == [i \in 1..Len(ns) |-> ns[i].id]
HistoryNodeIds(hist, n) == [i \in 1..n |-> hist[i].nodeData.id]

\* C3: -1 <= historyIndex <= length - 1; the commands up to historyIndex are
\* applied, in index order (their nodes are the last ones of the scene, in
\* that order), the commands above it are not applied; undo invokes exactly
\* commandHistory[historyIndex].undo() and decrements the index, redo
\* increments it and invokes exactly commandHistory[historyIndex].execute().
C3_IndexSplitsApplied ==
    /\ [](/\ -1 <= historyIndex
          /\ historyIndex <= Len(commandHistory) - 1
          /\ Len(nodes) >= historyIndex + 1
          /\ Suffix(NodeIdsOf(nodes), historyIndex + 1)
               = HistoryNodeIds(commandHistory, historyIndex + 1)
          /\ Suffix(applied, historyIndex + 1)
               = SubSeq(Cids(commandHistory), 1, historyIndex + 1)
          /\ \A i \in 1..Len(commandHistory) :
                i > historyIndex + 1 =>
                    /\ ~HasNode(commandHistory[i].nodeData.id)
                    /\ \A k \in 1..Len(applied) : applied[k] # commandHistory[i].cid)
    /\ [][/\ (event'.op = "undo" /\ historyIndex >= 0) =>
                /\ event'.calls = <<Call(commandHistory[historyIndex + 1].cid, "undo")>>
                /\ historyIndex' = historyIndex - 1
          /\ (event'.op = "redo" /\ historyIndex < Len(commandHistory) - 1) =>
                /\ event'.calls = <<Call(commandHistory[historyIndex + 2].cid, "execute")>>
                /\ historyIndex' = historyIndex + 1]_vars

\* C3 witness: a redo has just re-applied the second of three commands
C3_Witness ==
    /\ event.op = "redo"
    /\ event.calls = <<Call(2, "execute")>>
    /\ Len(commandHistory) = 3
    /\ historyIndex = 1

\* C4: undo with historyIndex < 0 and redo at the head invoke no command and
\* leave the history, the index and the scene unchanged; only a notice shows.
C4_UnderflowOverflowNoOp ==
    [][/\ (event'.op = "undo" /\ historyIndex < 0) =>
             /\ UNCHANGED <<commandHistory, historyIndex, nodes, connections,
                            selectedNode, applied>>
             /\ event'.calls = <<>>
             /\ event'.toast = "Nothing to undo"
       /\ (event'.op = "redo" /\ historyIndex = Len(commandHistory) - 1) =>
             /\ UNCHANGED <<commandHistory, historyIndex, nodes, connections,
                            selectedNode, applied>>
             /\ event'.calls = <<>>
             /\ event'.toast = "Nothing to redo"]_vars

\* C4 witness: redo at the head of a non-empty history answered by the notice
C4_Witness ==
    /\ event.op = "redo"
    /\ event.toast = "Nothing to redo"
    /\ Len(commandHistory) > 0
    /\ historyIndex = Len(commandHistory) - 1

----------------------------------------------------------------------------
(* Properties of the scene store (SpecScene) *)

\* C5: after removeNode(id) the node is gone, no connection from or to id
\* remains, the connections and nodes not involved are kept in their order,
\* and selectedNode is cleared if it referred to the removed node.
C5_RemoveNodeCascades ==
    [][event'.op = "removeNode" =>
          LET id == event'.id
              NotIncident(c) == ~(c.from = id \/ c.to = id)
              Other(n) == n.id # id
          IN  /\ \A i \in 1..Len(nodes') : nodes'[i].id # id
              /\ \A i \in 1..Len(connections') :
                    connections'[i].from # id /\ connections'[i].to # id
              /\ connections' = SelectSeq(connections, NotIncident)
              /\ nodes' = SelectSeq(nodes, Other)
              /\ (selectedNode # NULL /\ selectedNode[1].id = id)
                    => selectedNode' = NULL]_vars

\* C5 witness: removeNode(1) has run and the connection 2 -> 3, added second
\* of three allocations, is what is left of the scene
C5_Witness ==
    /\ event.op = "removeNode"
    /\ event.id = 1
    /\ steps = 4
    /\ nextOid = 4
    /\ nodes = <<>>
    /\ Len(connections) = 1
    /\ connections[1].id = generateId(2)
    /\ connections[1].from = 2
    /\ connections[1].to = 3

OidsAt(hits) == {nodes[i].oid : i \in hits}

\* C8: when two visible nodes overlap at the queried point, getNodeAtPosition
\* returns the most recently added of them (the one created last).
C8_MostRecentlyAddedWins ==
    \A p \in ProbePoints :
        Cardinality(HitIndices(p)) >= 2 =>
            getNodeAtPosition(p)[1].oid = Max(OidsAt(HitIndices(p)))

----------------------------------------------------------------------------
(* Properties of layer visibility (SpecLayers) *)

RAbs(a) == [n |-> Abs(a.n), d |-> a.d]

\* registered and hidden
Hidden(layerId) == layerId \in DOMAIN layers /\ ~layers[layerId].visible

\* the rectangle of the node, of the configured size and centred on the
\* node, contains the world point under the screen point
Covers(node, screenPos) ==
    LET w == screenToWorld(screenPos)
    IN  /\ RLe(RMul(R(2), RAbs(RSub(w.x, node.x))), R(config.nodeSize.width))
        /\ RLe(RMul(R(2), RAbs(RSub(w.y, node.y))), R(config.nodeSize.height))

NodesWithId(id) == {i \in 1..Len(nodes) : nodes[i].id = id}

\* both endpoints are stored and neither is on a registered, hidden layer
Drawable(conn) ==
    /\ NodesWithId(conn.from) # {}
    /\ NodesWithId(conn.to) # {}
    /\ \A i \in NodesWithId(conn.from) \cup NodesWithId(conn.to) :
          ~Hidden(nodes[i].layer)

ConnIndexById(id) == {i \in 1..Len(connections) : connections[i].id = id}

\* a point within the click tolerance of the segment that joins the two
\* node positions of this specification
NearSegment == [x |-> 50, y |-> 5]

C9_State ==
    /\ \A p \in ProbePoints :
          /\ getNodeAtPosition(p) # NULL => ~Hidden(getNodeAtPosition(p)[1].layer)
          /\ \A i \in 1..Len(nodes) :
                (nodes[i].layer \notin DOMAIN layers /\ Covers(nodes[i], p))
                    => /\ getNodeAtPosition(p) # NULL
                       /\ \E j \in 1..i : nodes[j].oid = getNodeAtPosition(p)[1].oid
          /\ getConnectionAtPosition(p) # NULL
                => Drawable(getConnectionAtPosition(p)[1])
    /\ \A i \in renderConnections : Drawable(connections[i])
    /\ \A i \in 1..Len(connections) :
          Drawable(connections[i])
              => /\ i \in renderConnections
                 /\ i \in ConnHitIndices(NearSegment)

\* no call but removeNode takes a connection out of the list
C9_Step ==
    event'.op # "removeNode" =>
        /\ Len(connections') >= Len(connections)
        /\ SubSeq(connections', 1, Len(connections)) = connections

\* C9: hit-testing never returns a node on a registered, hidden layer and
\* takes a node on an unregistered layer as visible; a connection with a
\* missing or hidden endpoint is neither returned by getConnectionAtPosition
\* nor drawn by render; it stays in the connection list and is drawn and
\* hit-testable in every state in which both of its nodes are stored on
\* layers that are not hidden, so from the moment the missing node is added.
C9_HiddenAndDangling == []C9_State /\ [][C9_Step]_vars

\* C9 witness: the connection added before any node is drawn and hit at
\* (50,5) right after the second endpoint was added, a hidden layer exists
C9_Witness ==
    /\ event.op = "addNode"
    /\ Len(connections) >= 1
    /\ connections[1].id = generateId(1)
    /\ 1 \in renderConnections
    /\ getConnectionAtPosition(NearSegment) # NULL
    /\ \E l \in DOMAIN layers : ~layers[l].visible

----------------------------------------------------------------------------
(* Properties of the pointer state machine (SpecPointer) *)

\* a gesture that began on a node has just ended with mouseup and click
PressEnded == event.op = "mouseup+click" /\ gesture.node # NULL

Pressed == gesture.node[1]

PressedIndices == {i \in 1..Len(nodes) : nodes[i].oid = Pressed.oid}

\* the pressed node lies at its position at mousedown plus the pointer's
\* displacement divided by the zoom, the zoom being that of the whole gesture
Displaced ==
    gesture.zoomKept =>
        \A i \in PressedIndices :
            /\ nodes[i].x = RAdd(Pressed.x,
                                 RDiv(R(event.pos.x - gesture.down.x), viewport.zoom))
            /\ nodes[i].y = RAdd(Pressed.y,
                                 RDiv(R(event.pos.y - gesture.down.y), viewport.zoom))

\* C6 as stated: a gesture that begins on a node and never moves farther than
\* dragThreshold from the down-point fires onNodeClick for that node; one that
\* moves farther fires no onNodeClick and leaves the node displaced.
C6_ClickForPressedNode ==
    PressEnded =>
        IF gesture.exceeded
        THEN event.fired = <<>> /\ Displaced
        ELSE event.fired = <<Fired("onNodeClick", Pressed.id)>>

\* C6, amended: within the threshold the click fires exactly one onNodeClick,
\* for a visible node that covers the up-point (the one hit-testing finds
\* there); the pressed node covers the up-point too, so the callback is for
\* the pressed node whenever no other node covers the up-point. Beyond the
\* threshold no callback fires and the pressed node is displaced by the
\* pointer's displacement divided by the zoom.
C6_ClickForHitNode ==
    PressEnded =>
        IF gesture.exceeded
        THEN event.fired = <<>> /\ Displaced
        ELSE /\ PressedIndices # {}
             /\ \A j \in PressedIndices :
                    Covers(nodes[j], event.pos) /\ ~Hidden(nodes[j].layer)
             /\ \E i \in 1..Len(nodes) :
                    /\ Covers(nodes[i], event.pos)
                    /\ ~Hidden(nodes[i].layer)
                    /\ event.fired = <<Fired("onNodeClick", nodes[i].id)>>

\* a press on the later node, released within the threshold over both nodes:
\* the click goes to the earlier node
C6_Witness ==
    /\ PressEnded
    /\ ~gesture.exceeded
    /\ event.pos # gesture.down
    /\ event.fired # <<>>
    /\ event.fired[1].id # Pressed.id

MoveStep == event'.op = "mousemove"

\* C7: during a gesture a mousemove moves the pressed node by (dx / zoom,
\* dy / zoom) if the gesture began on a node and pans the viewport by (dx, dy)
\* otherwise, dx and dy being the displacement since the previous pointer
\* event; outside a gesture it moves nothing.
C7_MoveEffect ==
    [][MoveStep =>
        LET dx == event'.pos.x - lastMousePos[1].x
            dy == event'.pos.y - lastMousePos[1].y
        IN  IF gesture.active
            THEN IF gesture.node # NULL
                 THEN /\ viewport' = viewport
                      /\ Len(nodes') = Len(nodes)
                      /\ \A i \in 1..Len(nodes) :
                            nodes'[i] =
                              IF nodes[i].oid = Pressed.oid
                              THEN [nodes[i] EXCEPT
                                      !.x = RAdd(@, RDiv(R(dx), viewport.zoom)),
                                      !.y = RAdd(@, RDiv(R(dy), viewport.zoom))]
                              ELSE nodes[i]
                 ELSE /\ nodes' = nodes
                      /\ viewport' = [viewport EXCEPT !.x = RAdd(@, R(dx)),
                                                      !.y = RAdd(@, R(dy))]
            ELSE nodes' = nodes /\ viewport' = viewport]_vars

\* a node has been dragged at a zoom other than 1
C7_Witness ==
    /\ event.op = "mousemove"
    /\ gesture.active
    /\ gesture.node # NULL
    /\ viewport.zoom # R(1)
    /\ \E i \in PressedIndices : nodes[i].x # Pressed.x

----------------------------------------------------------------------------
(* Properties of zooming (SpecZoom) *)

WheelStep == event'.op = "wheel"

\* C10: a wheel step at screen point p leaves the world point under p where
\* it was; when the zoom does not change (the clamped zoom equals the current
\* zoom) the viewport is unchanged and onZoomChange is not fired, and when it
\* changes onZoomChange is fired once.
C10_PivotPreserved ==
    [][WheelStep =>
        /\ screenToWorldV(viewport', event'.pos) = screenToWorldV(viewport, event'.pos)
        /\ RLe(minZoom, viewport'.zoom) /\ RLe(viewport'.zoom, maxZoom)
        /\ IF viewport'.zoom = viewport.zoom
           THEN viewport' = viewport /\ event'.fired = <<>>
           ELSE event'.fired = <<Fired("onZoomChange", 0)>>]_vars

\* a wheel step whose zoom was cut short at maxZoom moved the pan
C10_Witness ==
    /\ event.op = "wheel"
    /\ event.fired # <<>>
    /\ viewport.zoom = maxZoom
    /\ viewport.x # R(0)

----------------------------------------------------------------------------
(* Properties of fitting and zooming (SpecFit) *)

\* C11: after any sequence of wheel zooms, setZoom calls, animated zoom
\* controls and zoomToFit calls the zoom lies within [minZoom, maxZoom].
C11_ZoomWithinBounds ==
    RLe(minZoom, viewport.zoom) /\ RLe(viewport.zoom, maxZoom)

\* where the viewport puts a world point on the screen
OnScreen(wx, wy) ==
    [x |-> RAdd(RMul(wx, viewport.zoom), viewport.x),
     y |-> RAdd(RMul(wy, viewport.zoom), viewport.y)]

VisibleNodes == {i \in 1..Len(nodes) : ~Hidden(nodes[i].layer)}

\* screen rectangle of node i: its corners
ScreenLo(i) == OnScreen(RSub(nodes[i].x, Rat(config.nodeSize.width, 2)),
                        RSub(nodes[i].y, Rat(config.nodeSize.height, 2)))
ScreenHi(i) == OnScreen(RAdd(nodes[i].x, Rat(config.nodeSize.width, 2)),
                        RAdd(nodes[i].y, Rat(config.nodeSize.height, 2)))

PadLo == R(config.padding)
PadHiX == R(canvasClient.width - config.padding)
PadHiY == R(canvasClient.height - config.padding)

\* every visible node's rectangle lies inside the canvas minus the padding
FitsInside ==
    \A i \in VisibleNodes :
        /\ RLe(PadLo, ScreenLo(i).x) /\ RLe(ScreenHi(i).x, PadHiX)
        /\ RLe(PadLo, ScreenLo(i).y) /\ RLe(ScreenHi(i).y, PadHiY)

\* no larger scale would do: the zoom is maxZoom, or the rectangles reach
\* the padding on both sides horizontally, or on both sides vertically
FitsTightly ==
    \/ viewport.zoom = maxZoom
    \/ /\ \E i \in VisibleNodes : ScreenLo(i).x = PadLo
       /\ \E i \in VisibleNodes : ScreenHi(i).x = PadHiX
    \/ /\ \E i \in VisibleNodes : ScreenLo(i).y = PadLo
       /\ \E i \in VisibleNodes : ScreenHi(i).y = PadHiY

\* the bounding box of the visible rectangles is centred on the canvas: the
\* margins left and right are equal, and so are those above and below
FitsCentred ==
    \E l \in VisibleNodes, r \in VisibleNodes, t \in VisibleNodes, b \in VisibleNodes :
        /\ \A i \in VisibleNodes :
              /\ RLe(ScreenLo(l).x, ScreenLo(i).x) /\ RLe(ScreenHi(i).x, ScreenHi(r).x)
              /\ RLe(ScreenLo(t).y, ScreenLo(i).y) /\ RLe(ScreenHi(i).y, ScreenHi(b).y)
        /\ RAdd(ScreenLo(l).x, ScreenHi(r).x) = R(canvasClient.width)
        /\ RAdd(ScreenLo(t).y, ScreenHi(b).y) = R(canvasClient.height)

FitStepDone == event'.op = "zoomToFit"

\* C12: zoomToFit with a visible node zooms to the largest scale, at most
\* maxZoom, at which the visible nodes' rectangles fit inside the canvas
\* minus the padding, centred; without a visible node it changes nothing.
C12_ZoomToFit ==
    /\ [](event.op = "zoomToFit" /\ VisibleNodes # {} =>
            /\ RLe(viewport.zoom, maxZoom)
            /\ FitsInside /\ FitsTightly /\ FitsCentred
            /\ event.fired = <<Fired("onZoomChange", 0)>>)
    /\ [][FitStepDone /\ VisibleNodes = {} =>
            viewport' = viewport /\ event'.fired = <<>>]_vars

\* the example: nodes at (-100,0) and (100,0), size 120x80, have been fitted
C12_Witness ==
    /\ event.op = "zoomToFit"
    /\ config.nodeSize.width = 120
    /\ Len(nodes) = 2
    /\ VisibleNodes = {1, 2}
    /\ nodes[1].x = R(0 - 100) /\ nodes[2].x = R(100)
    /\ viewport.zoom # R(1)

----------------------------------------------------------------------------
(* Properties of the connection list (SpecConn) *)

\* the connections between a and b, in either direction
Between(conns, a, b) ==
    {i \in 1..Len(conns) : {conns[i].from, conns[i].to} = {a, b}}

Others(conns, a, b) ==
    LET Other(conn) == {conn.from, conn.to} # {a, b} IN SelectSeq(conns, Other)

\* C13: removeConnection(fromId, toId) removes every connection between the
\* two nodes in either direction, keeps the other connections in order, and
\* returns true exactly when it removed one.
C13_RemoveBothDirections ==
    [][event'.op = "removeConnection" =>
        LET a == event'.args[1]
            b == event'.args[2]
        IN  /\ Between(connections', a, b) = {}
            /\ connections' = Others(connections, a, b)
            /\ event'.ret = Some(Between(connections, a, b) # {})]_vars

\* removeConnection(2, 1) has removed the connection 1 -> 2 and kept another
C13_Witness ==
    /\ event.op = "removeConnection"
    /\ event.args = <<2, 1>>
    /\ event.ret = Some(TRUE)
    /\ Len(connections) = 1
    /\ connections[1].from = connections[1].to
    /\ steps = 3

AddConnectionStep == event'.op = "addConnection"

----------------------------------------------------------------------------
(* Properties of scene replacement (SpecData, SpecDataFair) *)

\* C15: after clearAll() the nodes and the connections are gone, nothing is
\* selected (neither a node nor a connection) and nothing is highlighted.
C15_ClearAllEmpties ==
    event.op = "clearAll" =>
        /\ nodes = <<>>
        /\ connections = <<>>
        /\ selectedNode = NULL
        /\ selectedConnection = NULL
        /\ highlightedNode = NULL
        /\ highlightedNodes = <<>>
        /\ highlightedConnections = <<>>

SetDataStep == event'.op = "setData"

\* the stored scene holds exactly the entries of the data, in order
SceneIs(ns, conns, ls, data) ==
    /\ Len(ns) = Len(data.nodes)
    /\ \A i \in 1..Len(ns) :
          /\ ns[i].id = data.nodes[i].id
          /\ ns[i].x = data.nodes[i].x /\ ns[i].y = data.nodes[i].y
          /\ ns[i].layer = data.nodes[i].layer
    /\ Len(conns) = Len(data.connections)
    /\ \A i \in 1..Len(conns) :
          /\ conns[i].from = data.connections[i].from
          /\ conns[i].to = data.connections[i].to
          /\ conns[i].label = data.connections[i].label
    /\ DOMAIN ls = {data.layers[i].id : i \in 1..Len(data.layers)}
    /\ \A i \in 1..Len(data.layers) : ls[data.layers[i].id].visible = data.layers[i].visible

\* C17: setData(d) leaves exactly the nodes, connections and layers of d,
\* whatever the scene was before (so after two calls the scene is that of the
\* second), and schedules a zoomToFit, which is performed afterwards.
C17_SetDataReplaces ==
    /\ [][SetDataStep =>
            /\ SceneIs(nodes', connections', layers', event'.args[1])
            /\ pendingFits' = pendingFits + 1]_vars
    /\ [](event.op = "setData" => <>(event.op = "zoomToFit"))

\* a second setData has replaced the scene of the first
C17_Witness ==
    /\ event.op = "setData"
    /\ event.args = <<DataB>>
    /\ pendingFits = 2
    /\ Len(nodes) = 2
    /\ nodes[1].y = R(200)

\* the scene and the command history are as they were
SceneAndHistoryKept ==
    /\ nodes' = nodes
    /\ connections' = connections
    /\ layers' = layers
    /\ commandHistory' = commandHistory
    /\ historyIndex' = historyIndex

\* the engine's operations on what is not stored raise nothing:
\* removeConnection for a pair without connection, updateConnection with an
\* unknown id and setLayerVisibility with an unknown layer change nothing;
\* removeNode with an unknown id keeps the nodes, but still filters out the
\* connections that name the id (addConnection accepts such connections)
EngineNoOps ==
    [][/\ (event'.op = "removeNode" /\ ~HasNode(event'.id))
            => /\ nodes' = nodes /\ layers' = layers /\ ~event'.threw
               /\ connections' = removeNodeConnections(connections, event'.id)
       /\ (event'.op = "removeConnection"
             /\ Between(connections, event'.args[1], event'.args[2]) = {})
            => SceneAndHistoryKept /\ ~event'.threw
       /\ (event'.op = "updateConnection"
             /\ findConnectionById(connections, event'.id) = 0)
            => SceneAndHistoryKept /\ ~event'.threw
       /\ (event'.op = "setLayerVisibility" /\ layers' # layers)
            => DOMAIN layers' = DOMAIN layers /\ ~event'.threw]_vars

\* the edit modal is submitted for a connection that is no longer stored
EditOfMissing ==
    /\ event'.op = "connectionEdit"
    /\ currentEditingConnection # NULL
    /\ findConnectionById(connections, currentEditingConnection[1]) = 0

\* C16: updating a connection whose id is no longer in the scene through the
\* edit path (createUpdateConnectionCommand + executeCommand) is a silent
\* no-op: no error is raised and the scene and the command history are
\* unchanged.
C16_EditOfMissingIsSilent ==
    [][EditOfMissing => SceneAndHistoryKept /\ ~event'.threw]_vars

\* the edit of a missing connection has thrown, and every command the
\* history holds was made by a click in connection mode
C16_ThrownAfterUndo ==
    /\ event.op = "connectionEdit"
    /\ event.threw
    /\ commandHistory # <<>>
    /\ \A i \in 1..Len(commandHistory) : commandHistory[i].kind = "addConnection"

\* the diagram that was just imported is the export of the scene before
RoundTrip ==
    /\ event'.op = "importDiagram"
    /\ event'.args[1] = exportDiagramAsJSON

\* C18: importing the exported snapshot reproduces the scene: the same nodes
\* at the same positions, the same connections with the same endpoints and
\* labels, and the same layer visibility.
C18_ExportImportRoundTrip ==
    [][RoundTrip =>
          /\ Len(nodes') = Len(nodes)
          /\ \A i \in 1..Len(nodes) :
                /\ nodes'[i].id = nodes[i].id
                /\ nodes'[i].x = nodes[i].x /\ nodes'[i].y = nodes[i].y
                /\ nodes'[i].layer = nodes[i].layer
          /\ Len(connections') = Len(connections)
          /\ \A i \in 1..Len(connections) :
                /\ connections'[i].from = connections[i].from
                /\ connections'[i].to = connections[i].to
                /\ connections'[i].label = connections[i].label
          /\ layers' = layers]_vars

\* what does hold: the nodes and the layers come back, the connections do not
ImportKeepsNodesOnly ==
    [][RoundTrip =>
          /\ Len(nodes') = Len(nodes)
          /\ \A i \in 1..Len(nodes) :
                /\ nodes'[i].id = nodes[i].id
                /\ nodes'[i].x = nodes[i].x /\ nodes'[i].y = nodes[i].y
                /\ nodes'[i].layer = nodes[i].layer
          /\ connections' = <<>>
          /\ layers' = layers
          /\ viewport' = viewport]_vars

ExistsNotice == "Connection already exists between these nodes."

\* a click on a node in connection mode while a first node is held
SecondClick ==
    /\ event'.op = "nodeClick"
    /\ connectionMode
    /\ selectedNodeForConnection # NULL

FirstId == selectedNodeForConnection[1].id

NoParallelOrSelf(conns) ==
    /\ \A i \in 1..Len(conns) : conns[i].from # conns[i].to
    /\ \A i, j \in 1..Len(conns) :
          {conns[i].from, conns[i].to} = {conns[j].from, conns[j].to} => i = j

\* C19: in connection mode a click on a second, different node adds one
\* connection first -> second and records its command only when no connection
\* joins the two nodes in either direction; otherwise the notice is shown and
\* connections and history are unchanged; a click on the held node, and the
\* first click, create nothing. Clicks, undo and redo never leave two
\* connections between the same pair of nodes or a connection from a node to
\* itself.
C19_ConnectByClicks ==
    /\ [][SecondClick /\ event'.id # FirstId
             => IF Between(connections, FirstId, event'.id) = {}
                THEN /\ Len(connections') = Len(connections) + 1
                     /\ SubSeq(connections', 1, Len(connections)) = connections
                     /\ connections'[Len(connections')].from = FirstId
                     /\ connections'[Len(connections')].to = event'.id
                     /\ commandHistory'[Len(commandHistory')].kind = "addConnection"
                     /\ historyIndex' = Len(commandHistory') - 1
                     /\ event'.toast = ""
                ELSE /\ event'.toast = ExistsNotice
                     /\ connections' = connections
                     /\ commandHistory' = commandHistory
                     /\ historyIndex' = historyIndex]_vars
    /\ [][event'.op = "nodeClick" /\ ~(SecondClick /\ event'.id # FirstId)
             => /\ connections' = connections
                /\ commandHistory' = commandHistory
                /\ historyIndex' = historyIndex
                /\ event'.toast = ""]_vars
    /\ [][SecondClick => selectedNodeForConnection' = NULL]_vars
    /\ []NoParallelOrSelf(connections)

\* a connection was made by clicks, undone and redone (the redo stores a new
\* connection object, whose generated id is the second one drawn), and a
\* later pair of clicks on its two nodes has just been refused
C19_Witness ==
    /\ event.op = "nodeClick"
    /\ event.toast = ExistsNotice
    /\ Len(commandHistory) = 1
    /\ historyIndex = 0
    /\ \E i \in 1..Len(connections) :
          /\ connections[i].from = commandHistory[1].fromId
          /\ connections[i].to = commandHistory[1].toId
          /\ connections[i].id = generateId(InitialOid + 1)

\* the command the next undo addresses
UndoCommand == commandHistory[undoTarget(historyIndex) + 1]

\* a remove-node command has just been executed and is undone now
RemoveUndone ==
    /\ event.op = "execute"
    /\ event'.op = "undo"
    /\ event'.id = event.id
    /\ historyIndex >= 0
    /\ UndoCommand.kind = "removeNode"

NodeRestored(ns, nodeData) ==
    \E i \in 1..Len(ns) :
        /\ ns[i].id = nodeData.id
        /\ ns[i].x = nodeData.x /\ ns[i].y = nodeData.y
        /\ ns[i].layer = nodeData.layer

\* C20: when the command of createRemoveNodeCommand(id) is executed and then
\* undone, the node is stored again with its attributes, and so is every
\* connection that was incident to it, with the same endpoints.
C20_RemoveNodeReversible ==
    [][RemoveUndone =>
          /\ NodeRestored(nodes', UndoCommand.nodeData)
          /\ \A k \in 1..Len(UndoCommand.connections) :
                \E j \in 1..Len(connections') :
                    /\ connections'[j].from = UndoCommand.connections[k].from
                    /\ connections'[j].to = UndoCommand.connections[k].to]_vars

\* what does hold: the node comes back, the connections stay as the execute
\* left them
RemoveUndoRestoresNodeOnly ==
    [][RemoveUndone =>
          /\ NodeRestored(nodes', UndoCommand.nodeData)
          /\ connections' = connections]_vars

ConnectionSet(conns) == {conns[i] : i \in 1..Len(conns)}

\* the connections after the delete command of the k-th stored connection is
\* executed and then undone
DeleteThenUndo(k) ==
    LET command == createDeleteConnectionCommand(0, connections[k])
    IN  CmdUndo(command, CmdExecute(command, Scene)).connections

\* C21: for the command of createDeleteConnectionCommand(c) on any stored
\* connection c, execute followed by undo leaves the set of connections (ids,
\* endpoints, labels, types) as it was, whatever other connections join the
\* same two nodes.
C21_DeleteConnectionReversible ==
    \A k \in 1..Len(connections) :
        ConnectionSet(DeleteThenUndo(k)) = ConnectionSet(connections)

\* what does hold: the deleted connection itself comes back as it was, and
\* every connection between other pairs is kept; the other connections
\* between the same two nodes are lost
DeleteUndoRestoresOne ==
    \A k \in 1..Len(connections) :
        ConnectionSet(DeleteThenUndo(k)) =
            {connections[k]}
              \cup ConnectionSet(Others(connections, connections[k].from,
                                        connections[k].to))

\* an update-node command is executed by this step
UpdateExecuted ==
    /\ event'.op = "execute"
    /\ commandHistory'[historyIndex' + 1].kind = "updateNode"

\* an update-node command has just been executed and is undone now
UpdateUndone ==
    /\ event.op = "execute"
    /\ event'.op = "undo"
    /\ event'.id = event.id
    /\ historyIndex >= 0
    /\ UndoCommand.kind = "updateNode"

\* C22: the update-node command holds the node as it was before the update,
\* and when the command is executed and then undone the node has exactly the
\* attribute values it had before execute.
C22_UpdateNodeReversible ==
    /\ [][UpdateExecuted =>
             LET command == commandHistory'[historyIndex' + 1]
             IN  command.oldData = GetNode(command.nodeId)]_vars
    /\ [][UpdateUndone =>
             \E i \in 1..Len(nodes') : nodes'[i] = UndoCommand.oldData]_vars

\* what does hold: the old data are captured before the update, and the undo
\* restores every attribute the node had; an attribute the node did not have
\* keeps the value the update gave it
UpdateUndoRestoresPresent ==
    /\ [][UpdateExecuted =>
             LET command == commandHistory'[historyIndex' + 1]
             IN  command.oldData = GetNode(command.nodeId)]_vars
    /\ [][UpdateUndone =>
             \E i \in 1..Len(nodes') :
                 nodes'[i] = [UndoCommand.oldData EXCEPT
                                 !.code = IF @ = Undefined
                                          THEN UndoCommand.newData.code ELSE @]]_vars

\* neither a node drag nor a pan is armed
Idle(start, dragging) == start = NULL /\ ~dragging

\* C23: when the pointer leaves the canvas while a node drag or a pan is
\* armed or in progress, the interaction ends as a pointer-up would end it:
\* the engine is idle afterwards, and a move over the canvas that follows
\* moves no node and does not pan.
C23_LeaveEndsInteraction ==
    /\ [][event'.op = "mouseleave" /\ ~Idle(dragStart, isDragging)
             => Idle(dragStart', isDragging')]_vars
    /\ [][event.op = "mouseleave" /\ event'.op = "mousemove"
             => nodes' = nodes /\ viewport' = viewport]_vars

\* what the canvas shows
Visible ==
    <<nodes, connections, layers, viewport, selectedNode, selectedConnection,
      hoveredNode, highlightedNode, highlightedNodes, highlightedConnections>>

\* the handlers of pointer events and the callbacks of a click
InputOps == {"mousedown", "mousemove", "mouseup", "mouseup+click", "wheel",
             "nodeClick", "connectionClick"}

\* C24: a handler of an input event that changes what the canvas shows
\* (scene, viewport, layer visibility, selection, hover or highlight) has
\* called render() after the change when it returns.
C24_RedrawAfterChange ==
    [][event'.op \in InputOps /\ Visible' # Visible => event'.drawn]_vars

\* what does hold: the only change left undrawn is the connection selection
\* that a click on a node clears outside connection mode
RedrawExceptNodeClick ==
    [][event'.op \in InputOps /\ Visible' # Visible /\ ~event'.drawn
          => /\ event'.op \in {"nodeClick", "mouseup+click"}
             /\ selectedConnection # NULL /\ selectedConnection' = NULL
             /\ ~connectionMode]_vars

\* the command that this step executes, undoes or redoes
StepCommand ==
    IF event'.op = "undo" THEN commandHistory[historyIndex + 1]
    ELSE commandHistory'[historyIndex' + 1]

\* a command ran in this step and ended with LayerManager.updateStats()
StatsStep ==
    /\ event'.op \in {"execute", "undo", "redo"}
    /\ event'.id # 0
    /\ callsUpdateStats(StepCommand, Scene)

\* C25: after updateStats() every layer's nodeCount is the number of nodes of
\* the scene whose layer is that layer, also after nodes were removed or
\* moved to another layer.
C25_NodeCountsCurrent ==
    [][StatsStep =>
          \A l \in DOMAIN nodeCounts' :
              nodeCounts'[l] = Cardinality(NodesOfLayer(nodes', l))]_vars

\* what does hold: the count of every layer that has a node is current; a
\* layer left without nodes keeps the count it had
NodeCountsOfUsedLayers ==
    [][StatsStep =>
          \A l \in DOMAIN nodeCounts' :
              nodeCounts'[l] = IF NodesOfLayer(nodes', l) # {}
                               THEN Cardinality(NodesOfLayer(nodes', l))
                               ELSE nodeCounts[l]]_vars

RECURSIVE UndoTimes(_, _, _)
\* the scene after undo() is called k times with the history index at idx
UndoTimes(sc, idx, k) ==
    IF k = 0 \/ idx < 0 THEN sc
    ELSE UndoTimes(CmdUndo(commandHistory[undoTarget(idx) + 1], sc),
                   undoIndex(idx), k - 1)

RECURSIVE RedoTimes(_, _, _)
\* the scene after redo() is called k times with the history index at idx
RedoTimes(sc, idx, k) ==
    IF k = 0 \/ idx >= Len(commandHistory) - 1 THEN sc
    ELSE RedoTimes(CmdExecute(commandHistory[(idx + 1) + 1], sc), idx + 1, k - 1)

\* k undos followed by k redos, from the current state
UndoRedo(k) == RedoTimes(UndoTimes(Scene, historyIndex, k), historyIndex - k, k)

\* the nodes with their attributes, and the connections with their endpoints,
\* labels and types
NodeSet(ns) ==
    {[id |-> ns[i].id, x |-> ns[i].x, y |-> ns[i].y, layer |-> ns[i].layer,
      label |-> ns[i].label, code |-> ns[i].code] : i \in 1..Len(ns)}
LinkSet(conns) ==
    {[from |-> conns[i].from, to |-> conns[i].to, label |-> conns[i].label,
      type |-> conns[i].type] : i \in 1..Len(conns)}

\* C26: whatever commands the history holds, k undos followed by k redos
\* (k at most the number of commands that can be undone) give the scene back:
\* the same nodes, and the same connections with the same endpoints, labels
\* and types.
C26_UndoRedoRoundTrip ==
    \A k \in 0..(historyIndex + 1) :
        /\ NodeSet(UndoRedo(k).nodes) = NodeSet(nodes)
        /\ LinkSet(UndoRedo(k).connections) = LinkSet(connections)

\* what does hold: one undo followed by one redo gives the scene back
UndoRedoOnce ==
    historyIndex >= 0 =>
        /\ NodeSet(UndoRedo(1).nodes) = NodeSet(nodes)
        /\ LinkSet(UndoRedo(1).connections) = LinkSet(connections)

\* a step that replaces or clears the whole scene
ReplaceOps == {"setData", "importData", "importDiagram", "clearAll"}
SceneReplaced == event'.op \in ReplaceOps

\* C27: whenever the whole scene is replaced or cleared (loadTemplateData,
\* importData, importDiagram, clearAllNodes) the command history is reset:
\* commandHistory is empty and historyIndex is -1 afterwards.
C27_ReplaceResetsHistory ==
    [][SceneReplaced => commandHistory' = <<>> /\ historyIndex' = -1]_vars

\* what does hold: importDiagram resets the history, the other three leave
\* it as it is
OnlyImportDiagramResets ==
    [][SceneReplaced =>
          IF event'.op = "importDiagram"
          THEN commandHistory' = <<>> /\ historyIndex' = -1
          ELSE commandHistory' = commandHistory /\ historyIndex' = historyIndex]_vars

\* the form creates a node in this step
NodeCreated ==
    /\ event'.op = "execute"
    /\ nextNodeId' = nextNodeId + 1
    /\ commandHistory'[historyIndex' + 1].kind = "addNode"

\* C29: handleNodeCreation always adds a new node: the id it assigns
\* (nextNodeId) is the id of no node of the scene, and every node of the
\* scene is kept, also when the scene was loaded from a template or imported
\* from an exported diagram.
C29_CreatedIdIsFresh ==
    [][NodeCreated =>
          /\ ~HasNode(nextNodeId)
          /\ Len(nodes') = Len(nodes) + 1
          /\ \A i \in 1..Len(nodes) : nodes'[i] = nodes[i]]_vars

\* the saved diagram is what exportDiagramAsJSON gives after the template is
\* loaded and one node is created
SavedDiagramExported == exportDiagramAsJSON = SavedDiagram

\* what does hold: the id differs from the ids of the template, and from
\* every id this session has assigned; it is taken only when the scene was
\* imported from a file that holds the id
CreatedIdFreshUnlessImported ==
    [][NodeCreated /\ HasNode(nextNodeId) =>
          \E k \in 1..Len(SavedDiagram.nodes) :
              SavedDiagram.nodes[k].id = nextNodeId]_vars

\* the object a reference names is stored in the Map of nodes
Stored(ref) == \E i \in 1..Len(nodes) : nodes[i].oid = ref.oid

\* C28: at every reachable state selectedNode is null or a node stored in the
\* scene, and selectedConnection is null or a connection of the connection
\* list, so that a drag never moves a node that is not part of the scene.
C28_SelectionInScene ==
    /\ selectedNode # NULL => Stored(selectedNode[1])
    /\ selectedConnection # NULL =>
           findConnectionById(connections, selectedConnection[1]) # 0

\* what does hold: the object a drag moves is the selected one, and a node
\* of the scene changes position in a move only if it is that object
DragMovesSelectedOnly ==
    [][event'.op = "mousemove" =>
          \A i \in 1..Len(nodes) :
              nodes'[i] # nodes[i] =>
                  selectedNode # NULL /\ nodes[i].oid = selectedNode[1].oid]_vars

\* an update-node command is undone or redone by this step
UpdateReplayed ==
    /\ event'.op \in {"undo", "redo"}
    /\ event'.id # 0
    /\ StepCommand.kind = "updateNode"

\* C30: undo and redo of an update-node command leave the position (x, y) of
\* the node as it is when they run, also after the node was dragged since the
\* update; the other nodes are not changed.
C30_ReplayKeepsPosition ==
    [][UpdateReplayed =>
          /\ Len(nodes') = Len(nodes)
          /\ \A i \in 1..Len(nodes) :
                IF nodes[i].id = StepCommand.nodeId
                THEN nodes'[i].x = nodes[i].x /\ nodes'[i].y = nodes[i].y
                ELSE nodes'[i] = nodes[i]]_vars

\* what does hold: redo keeps the position; undo puts the node where it was
\* when the update was made
UndoRestoresEditPosition ==
    [][UpdateReplayed =>
          /\ Len(nodes') = Len(nodes)
          /\ \A i \in 1..Len(nodes) :
                IF nodes[i].id = StepCommand.nodeId
                THEN IF event'.op = "redo"
                     THEN nodes'[i].x = nodes[i].x /\ nodes'[i].y = nodes[i].y
                     ELSE /\ nodes'[i].x = StepCommand.oldData.x
                          /\ nodes'[i].y = StepCommand.oldData.y
                ELSE nodes'[i] = nodes[i]]_vars

====
